---- MODULE Spec2Model ----
(***************************************************************************)
(* ThreadKeeper: tab relay service, tab collector and session store.       *)
(*                                                                         *)
(* Text is modelled as a sequence of lexical units (TLA+ strings): a unit  *)
(* is one or more characters that the code never looks inside ("http",     *)
(* "url", ":", "/").  Two texts are equal iff their unit sequences are.    *)
(* On the wire a body is a sequence of byte units: every ASCII unit is its *)
(* own bytes, the two-byte character U+00E9 is the bytes "C3" "A9", and    *)
(* "PADA"/"PADB" are blocks of spaces.  JavaScript values are tagged       *)
(* records [t |-> kind, v |-> payload].                                    *)
(***************************************************************************)
EXTENDS Integers, Sequences, FiniteSets, TLC

(* ------------------------------------------------------------------ *)
(* Bounds of the model                                                 *)
(* ------------------------------------------------------------------ *)
NumConns == 2
MaxChunkLen == 16
LongLen == 31
MaxSaves == 2
MaxKeys == 3

(* ------------------------------------------------------------------ *)
(* Program constants                                                   *)
(* ------------------------------------------------------------------ *)
MAX_BODY_BYTES == 1048576
TAB_CAP == 30

(* ------------------------------------------------------------------ *)
(* Sequences                                                           *)
(* ------------------------------------------------------------------ *)
Range(s) == {s[i] : i \in DOMAIN s}

StartsWith(s, p) == Len(s) >= Len(p) /\ SubSeq(s, 1, Len(p)) = p

\* the concatenation of ss[lo], ..., ss[hi]
RECURSIVE FlattenRange(_, _, _)
FlattenRange(ss, lo, hi) ==
  IF lo > hi THEN <<>>
  ELSE IF lo = hi THEN ss[lo]
  ELSE LET mid == (lo + hi) \div 2 IN
       FlattenRange(ss, lo, mid) \o FlattenRange(ss, mid + 1, hi)
Flatten(ss) == FlattenRange(ss, 1, Len(ss))

\* the sum of f[lo], ..., f[hi]
RECURSIVE SumRange(_, _, _)
SumRange(f, lo, hi) ==
  IF lo > hi THEN 0
  ELSE IF lo = hi THEN f[lo]
  ELSE LET mid == (lo + hi) \div 2 IN
       SumRange(f, lo, mid) + SumRange(f, mid + 1, hi)

\* Array.prototype.slice(0, n)
SliceTo(s, n) == SubSeq(s, 1, IF Len(s) < n THEN Len(s) ELSE n)

(* ------------------------------------------------------------------ *)
(* JavaScript values                                                   *)
(* ------------------------------------------------------------------ *)
Undefined == [t |-> "undef"]
JNull == [t |-> "null"]
JBool(b) == [t |-> "bool", v |-> b]
JNum(n) == [t |-> "num", v |-> n]
JStr(s) == [t |-> "str", v |-> s]
JArr(a) == [t |-> "arr", v |-> a]
\* an object is its members in insertion order, each <<key, value>>
JObj(m) == [t |-> "obj", v |-> m]

DigitUnits == <<"0", "1", "2", "3", "4", "5", "6", "7", "8", "9">>
DigitOf(u) == (CHOOSE i \in 1..10 : DigitUnits[i] = u) - 1

\* ToBoolean
Truthy(x) ==
  CASE x.t = "undef" -> FALSE
    [] x.t = "null" -> FALSE
    [] x.t = "bool" -> x.v
    [] x.t = "num" -> x.v # 0
    [] x.t = "str" -> x.v # <<>>
    [] OTHER -> TRUE

\* obj[key] for a value that is not null or undefined
GetProp(x, key) ==
  IF x.t = "obj" /\ \E i \in DOMAIN x.v : x.v[i][1] = key
  THEN x.v[CHOOSE i \in DOMAIN x.v : x.v[i][1] = key][2]
  ELSE Undefined

\* ToString, as RegExp.prototype.test and String() apply it
RECURSIVE ToStr(_)
ToStr(x) ==
  CASE x.t = "undef" -> <<"undefined">>
    [] x.t = "null" -> <<"null">>
    [] x.t = "bool" -> IF x.v THEN <<"true">> ELSE <<"false">>
    [] x.t = "num" -> <<DigitUnits[x.v + 1]>>
    [] x.t = "str" -> x.v
    [] x.t = "arr" ->
         Flatten([i \in DOMAIN x.v |->
           (IF i > 1 THEN <<",">> ELSE <<>>) \o
           (IF x.v[i].t \in {"undef", "null"} THEN <<>> ELSE ToStr(x.v[i]))])
    [] OTHER -> <<"[object Object]">>

(* ------------------------------------------------------------------ *)
(* UTF-8                                                               *)
(* ------------------------------------------------------------------ *)
PadA == MAX_BODY_BYTES \div 2
PadB == MAX_BODY_BYTES \div 2 - 2

\* Buffer.toString(): an incomplete or stray byte of a multi-byte character
\* becomes U+FFFD
BufferToStringWhole(bytes) ==
  Flatten([i \in DOMAIN bytes |->
    IF bytes[i] = "C3" THEN <<"U+00E9">>
    ELSE IF bytes[i] = "A9" THEN <<>>
    ELSE <<bytes[i]>>])
BufferToString(bytes) ==
  IF \A i \in DOMAIN bytes : bytes[i] \notin {"C3", "A9"} THEN bytes ELSE
  Flatten([i \in DOMAIN bytes |->
    IF bytes[i] = "C3"
    THEN IF i < Len(bytes) /\ bytes[i + 1] = "A9" THEN <<"U+00E9">> ELSE <<"FFFD">>
    ELSE IF bytes[i] = "A9"
    THEN IF i > 1 /\ bytes[i - 1] = "C3" THEN <<>> ELSE <<"FFFD">>
    ELSE <<bytes[i]>>])

\* Buffer.byteLength(str): the UTF-8 length of a text
UnitBytes(u) ==
  CASE u = "U+00E9" -> 2
    [] u = "U+2013" -> 3
    [] u \in {"C3", "A9"} -> 1
    [] u = "FFFD" -> 3
    [] u = "PADA" -> PadA
    [] u = "PADB" -> PadB
    [] OTHER -> Len(u)

ByteLength(str) == SumRange([i \in DOMAIN str |-> UnitBytes(str[i])], 1, Len(str))

(* ------------------------------------------------------------------ *)
(* JSON                                                                *)
(* ------------------------------------------------------------------ *)
\* runs of two, four, six and eight spaces are one unit each
Spaces == <<"  ", "    ", "      ", "        ">>
IsWs(u) == u \in {" ", "\n", "\t", "PADA", "PADB"} \cup Range(Spaces)

RECURSIVE SkipWs(_, _)
SkipWs(s, i) == IF i <= Len(s) /\ IsWs(s[i]) THEN SkipWs(s, i + 1) ELSE i

ParseFail == [ok |-> FALSE]
ParseOk(v, p) == [ok |-> TRUE, val |-> v, pos |-> p]

\* the character an escape \c stands for (<<>> where \c is no escape)
Unescape(c) ==
  CASE c \in {"\"", "\\", "/"} -> <<c>>
    [] c = "n" -> <<"\n">>
    [] c = "t" -> <<"\t">>
    [] OTHER -> <<>>

\* a string literal from the unit after its opening quote: escapes are
\* resolved, a raw control character or an unknown escape is a syntax error
RECURSIVE ParseString(_, _, _)
ParseString(s, i, acc) ==
  IF i > Len(s) THEN ParseFail
  ELSE CASE s[i] = "\"" -> ParseOk(JStr(acc), i + 1)
         [] s[i] \in {"\n", "\t"} -> ParseFail
         [] s[i] = "\\" ->
              IF i + 1 > Len(s) \/ Unescape(s[i + 1]) = <<>> THEN ParseFail
              ELSE ParseString(s, i + 2, acc \o Unescape(s[i + 1]))
         [] OTHER -> ParseString(s, i + 1, Append(acc, s[i]))

\* obj[k] = v while parsing: a repeated key keeps its place, the last value wins
PutMember(m, k, v) ==
  IF \E i \in DOMAIN m : m[i][1] = k
  THEN [i \in DOMAIN m |-> IF m[i][1] = k THEN <<k, v>> ELSE m[i]]
  ELSE Append(m, <<k, v>>)

RECURSIVE ParseValue(_, _), ParseElems(_, _, _), ParseMembers(_, _, _)
ParseValue(s, i) ==
  LET j == SkipWs(s, i) IN
  IF j > Len(s) THEN ParseFail
  ELSE CASE s[j] = "[" ->
              LET k == SkipWs(s, j + 1) IN
              IF k <= Len(s) /\ s[k] = "]" THEN ParseOk(JArr(<<>>), k + 1)
              ELSE ParseElems(s, j + 1, <<>>)
         [] s[j] = "{" ->
              LET k == SkipWs(s, j + 1) IN
              IF k <= Len(s) /\ s[k] = "}" THEN ParseOk(JObj(<<>>), k + 1)
              ELSE ParseMembers(s, j + 1, <<>>)
         [] s[j] = "\"" -> ParseString(s, j + 1, <<>>)
         [] s[j] \in Range(DigitUnits) -> ParseOk(JNum(DigitOf(s[j])), j + 1)
         [] s[j] = "null" -> ParseOk(JNull, j + 1)
         [] s[j] = "true" -> ParseOk(JBool(TRUE), j + 1)
         [] s[j] = "false" -> ParseOk(JBool(FALSE), j + 1)
         [] OTHER -> ParseFail

ParseElems(s, i, acc) ==
  LET r == ParseValue(s, i) IN
  IF ~r.ok THEN ParseFail
  ELSE LET k == SkipWs(s, r.pos) IN
       IF k > Len(s) THEN ParseFail
       ELSE IF s[k] = "," THEN ParseElems(s, k + 1, Append(acc, r.val))
       ELSE IF s[k] = "]" THEN ParseOk(JArr(Append(acc, r.val)), k + 1)
       ELSE ParseFail

ParseMembers(s, i, acc) ==
  LET j == SkipWs(s, i) IN
  IF j > Len(s) \/ s[j] # "\"" THEN ParseFail
  ELSE LET q == ParseString(s, j + 1, <<>>) IN
       IF ~q.ok THEN ParseFail
       ELSE LET c == SkipWs(s, q.pos) IN
            IF c > Len(s) \/ s[c] # ":" THEN ParseFail
            ELSE LET r == ParseValue(s, c + 1) IN
                 IF ~r.ok THEN ParseFail
                 ELSE LET k == SkipWs(s, r.pos)
                          m == PutMember(acc, q.val.v, r.val)
                      IN IF k > Len(s) THEN ParseFail
                         ELSE IF s[k] = "," THEN ParseMembers(s, k + 1, m)
                         ELSE IF s[k] = "}" THEN ParseOk(JObj(m), k + 1)
                         ELSE ParseFail

\* JSON.parse(text): [ok |-> FALSE] stands for the SyntaxError it throws
JsonParse(s) ==
  LET r == ParseValue(s, 1) IN
  IF r.ok /\ SkipWs(s, r.pos) > Len(s) THEN [ok |-> TRUE, val |-> r.val]
  ELSE ParseFail

\* a string as JSON.stringify quotes it
Escape(u) ==
  CASE u \in {"\"", "\\"} -> <<"\\", u>>
    [] u = "\n" -> <<"\\", "n">>
    [] u = "\t" -> <<"\\", "t">>
    [] OTHER -> <<u>>
Quote(str) ==
  <<"\"">> \o Flatten([i \in DOMAIN str |-> Escape(str[i])]) \o <<"\"">>

\* JSON.stringify(value), compact form
RECURSIVE JsonStringify(_)
JsonStringify(x) ==
  CASE x.t \in {"undef", "null"} -> <<"null">>
    [] x.t = "bool" -> IF x.v THEN <<"true">> ELSE <<"false">>
    [] x.t = "num" -> <<DigitUnits[x.v + 1]>>
    [] x.t = "str" -> Quote(x.v)
    [] x.t = "arr" ->
         <<"[">> \o
         Flatten([i \in DOMAIN x.v |->
           (IF i > 1 THEN <<",">> ELSE <<>>) \o JsonStringify(x.v[i])]) \o
         <<"]">>
    [] OTHER ->
         LET m == SelectSeq(x.v, LAMBDA kv : kv[2].t # "undef") IN
         <<"{">> \o
         Flatten([i \in DOMAIN m |->
           (IF i > 1 THEN <<",">> ELSE <<>>) \o
           Quote(m[i][1]) \o <<":">> \o JsonStringify(m[i][2])]) \o
         <<"}">>

\* JSON.stringify(value, null, 2): members and elements one per line,
\* indented two spaces per level
Indent(depth) == IF depth = 0 THEN <<"\n">> ELSE <<"\n", Spaces[depth]>>
RECURSIVE JsonStringifyIndent(_, _)
JsonStringifyIndent(x, depth) ==
  CASE x.t = "arr" ->
         IF x.v = <<>> THEN <<"[", "]">>
         ELSE <<"[">> \o
              Flatten([i \in DOMAIN x.v |->
                (IF i > 1 THEN <<",">> ELSE <<>>) \o Indent(depth + 1) \o
                JsonStringifyIndent(x.v[i], depth + 1)]) \o
              Indent(depth) \o <<"]">>
    [] x.t = "obj" ->
         LET m == SelectSeq(x.v, LAMBDA kv : kv[2].t # "undef") IN
         IF m = <<>> THEN <<"{", "}">>
         ELSE <<"{">> \o
              Flatten([i \in DOMAIN m |->
                (IF i > 1 THEN <<",">> ELSE <<>>) \o Indent(depth + 1) \o
                Quote(m[i][1]) \o <<":", " ">> \o
                JsonStringifyIndent(m[i][2], depth + 1)]) \o
              Indent(depth) \o <<"}">>
    [] OTHER -> JsonStringify(x)

\* String.prototype.split(sep), sep one unit
RECURSIVE SplitFrom(_, _, _)
SplitFrom(s, sep, cur) ==
  IF s = <<>> THEN <<cur>>
  ELSE IF Head(s) = sep THEN <<cur>> \o SplitFrom(Tail(s), sep, <<>>)
       ELSE SplitFrom(Tail(s), sep, Append(cur, Head(s)))
Split(s, sep) == SplitFrom(s, sep, <<>>)

\* Array.prototype.join(sep)
Join(parts, sep) ==
  Flatten([i \in DOMAIN parts |-> (IF i > 1 THEN <<sep>> ELSE <<>>) \o parts[i]])

\* String.prototype.trim()
RECURSIVE TrimLeft(_), TrimRight(_)
TrimLeft(s) == IF s # <<>> /\ IsWs(Head(s)) THEN TrimLeft(Tail(s)) ELSE s
TrimRight(s) ==
  IF s # <<>> /\ IsWs(s[Len(s)]) THEN TrimRight(SubSeq(s, 1, Len(s) - 1)) ELSE s
Trim(s) == TrimRight(TrimLeft(s))

(* ------------------------------------------------------------------ *)
(* URLs and the texts the model feeds in                               *)
(* ------------------------------------------------------------------ *)
\* /^https?:\/\//.test(s)
HttpRegexBroken(s) == \E i \in 1..Len(s) : s[i] = "http"
HttpRegex(s) ==
  \/ StartsWith(s, <<"http", ":", "/", "/">>)
  \/ StartsWith(s, <<"http", "s", ":", "/", "/">>)

UrlA == <<"http", ":", "/", "/", "a">>
UrlB == <<"http", "s", ":", "/", "/", "b">>
UrlE == <<"http", ":", "/", "/", "U+00E9">>
UrlFile == <<"file", ":", "/", "/", "c">>
UrlJs == <<"javascript", ":", "x">>
UrlInner == <<"x", "http", ":", "/", "/", "a">>
UrlUpper == <<"HTTP", ":", "/", "/", "a">>
UrlOneSlash == <<"http", ":", "/", "a">>
\* "http://00", "http://01", ...: pairwise different for i < 100
UrlN(i) ==
  <<"http", ":", "/", "/", DigitUnits[(i \div 10) + 1], DigitUnits[(i % 10) + 1]>>

KeyUrl == <<"url">>
KeyTitle == <<"title">>
KeyActive == <<"active">>

\* what the extension's syncTabs puts in the array for one tab
RelayTab(url, title) == JObj(<<<<KeyUrl, JStr(url)>>, <<KeyTitle, JStr(title)>>>>)
UrlOnly(url) == JObj(<<<<KeyUrl, JStr(url)>>>>)

\* TextEncoder: the UTF-8 bytes of a text
Utf8(str) ==
  IF \A i \in DOMAIN str : str[i] # "U+00E9" THEN str ELSE
  Flatten([i \in DOMAIN str |->
    IF str[i] = "U+00E9" THEN <<"C3", "A9">> ELSE <<str[i]>>])

LongTabs == [i \in 1..LongLen |-> UrlOnly(UrlN(i))]

\* arrays a client may push, as values
PushArrays ==
  { <<>>,
    <<UrlOnly(UrlA)>>,
    <<RelayTab(UrlB, <<"B">>), UrlOnly(UrlFile)>>,
    <<UrlOnly(UrlA), UrlOnly(UrlA)>>,
    <<UrlOnly(UrlE)>>,
    <<UrlOnly(UrlJs), UrlOnly(UrlInner), UrlOnly(UrlUpper), UrlOnly(UrlOneSlash)>>,
    <<JObj(<<<<KeyTitle, JStr(<<"T">>)>>>>), JNum(1), JObj(<<<<KeyUrl, JStr(<<>>)>>>>)>>,
    <<JNull>>,
    LongTabs }

\* request bodies as bytes: the arrays above, valid JSON that is no array,
\* text that is no JSON, an empty body, and padded bodies of exactly
\* MAX_BODY_BYTES and of MAX_BODY_BYTES + 2 bytes
BodyAtLimit == <<"[", "PADA", "PADB", "]">>
BodyOverLimit == <<"[", "PADA", "PADA", "]">>
AllBodies ==
  { Utf8(JsonStringify(JArr(a))) : a \in PushArrays }
  \cup { <<"{", "}">>, <<"[">>, <<>>, BodyAtLimit, BodyOverLimit }

\* the bodies used where the routing is explored
AuthBodies ==
  { Utf8(JsonStringify(JArr(a))) :
      a \in { <<UrlOnly(UrlA)>>, <<RelayTab(UrlB, <<"B">>), UrlOnly(UrlFile)>> } }
  \cup { <<"[">> }

\* the bodies used where malformed bodies are explored: no JSON, and JSON
\* that is no array
MalformedBodies ==
  { <<"[">>, <<>>, <<"oops">>,
    Utf8(JsonStringify(JArr(<<UrlOnly(UrlA)>>))) \o <<"]">> }
  \cup { Utf8(JsonStringify(v)) :
           v \in { JObj(<<>>), UrlOnly(UrlA), JNull, JNum(1), JStr(UrlA),
                    JBool(TRUE) } }
ArrayBodies ==
  { Utf8(JsonStringify(JArr(a))) :
      a \in { <<>>, <<UrlOnly(UrlA)>>, <<RelayTab(UrlB, <<"B">>), UrlOnly(UrlFile)>> } }

\* the bodies used where the body limit is explored
LimitBodies ==
  { Utf8(JsonStringify(JArr(<<UrlOnly(UrlA)>>))), BodyAtLimit, BodyOverLimit }

\* the bodies used where chunking and several connections are explored
SmallBodies ==
  { Utf8(JsonStringify(JArr(a))) : a \in { <<>>, <<UrlOnly(UrlE)>> } }
  \cup { <<"[">>, BodyAtLimit, BodyOverLimit }

(* ------------------------------------------------------------------ *)
(* Tab relay service (tab-relay-server.ts)                             *)
(* ------------------------------------------------------------------ *)
VARIABLES
  latestTabs,   \* let latestTabs: RelayTab[]
  authToken,    \* let authToken: string
  conns,        \* the POST /tabs requests whose body is being received
  ev,           \* the last response written by the request handler itself, or
                \* the last collection made
  pushed,       \* history: some POST /tabs has assigned latestTabs
  lastAccepted  \* history: the array, as sent, of the last completed POST
                \* /tabs whose body was a JSON array the filter ran over

relayVars == <<latestTabs, authToken, conns, ev, pushed, lastAccepted>>

\* a request header: absent, or present with a text (possibly empty)
NoHeader == [present |-> FALSE]
Hdr(s) == [present |-> TRUE, v |-> s]
\* !header
HeaderFalsy(h) == ~h.present \/ h.v = <<>>


OriginRegex(s) ==
  \E scheme \in {"chrome-extension", "moz-extension", "extension"} :
    StartsWith(s, <<scheme, ":", "/", "/">>)

isAllowedOriginNoAnchor(origin) ==
  HeaderFalsy(origin) \/ \E i \in 1..Len(origin.v) : OriginRegex(SubSeq(origin.v, i, Len(origin.v)))
isAllowedOrigin(origin) ==
  IF HeaderFalsy(origin) THEN TRUE ELSE OriginRegex(origin.v)

isAuthorizedTokenOnly(header, token) ==
  /\ ~HeaderFalsy(header)
  /\ LET parts == Split(header.v, " ") IN
       Len(parts) >= 2 /\ parts[2] = <<token>>
isAuthorized(header, token) ==
  IF HeaderFalsy(header) THEN FALSE
  ELSE LET parts == Split(header.v, " ") IN
       parts[1] = <<"Bearer">> /\ Len(parts) >= 2 /\ parts[2] = <<token>>

Token1 == "tok1"
Bearer(tok) == Hdr(<<"Bearer", " ", tok>>)

Origins ==
  { NoHeader,
    Hdr(<<>>),
    Hdr(<<"chrome-extension", ":", "/", "/", "abc">>),
    Hdr(<<"moz-extension", ":", "/", "/", "abc">>),
    Hdr(<<"extension", ":", "/", "/", "abc">>),
    Hdr(<<"http", ":", "/", "/", "evil">>),
    Hdr(<<"null">>),
    Hdr(<<"x", "chrome-extension", ":", "/", "/", "abc">>),
    Hdr(<<"chrome-extension", ":", "/", "abc">>) }

AuthHeaders ==
  { NoHeader,
    Hdr(<<>>),
    Bearer(Token1),
    Bearer("tok0"),
    Hdr(<<"bearer", " ", Token1>>),
    Hdr(<<"Basic", " ", Token1>>),
    Hdr(<<"Bearer", " ", " ", Token1>>),
    Hdr(<<"Bearer", " ", Token1, " ", "x">>),
    Hdr(<<"Bearer">>),
    Hdr(<<Token1>>) }

Methods == {"GET", "POST", "OPTIONS"}
Paths == {"/ping", "/token", "/tabs", "/other"}

\* every route from every origin, with and without the token; and /tabs with
\* every Authorization header
Requests ==
  [method : Methods, url : Paths, origin : Origins, auth : {NoHeader, Bearer(Token1)}]
  \cup [method : {"GET", "POST"}, url : {"/tabs"},
        origin : {NoHeader, Hdr(<<"chrome-extension", ":", "/", "/", "abc">>),
                  Hdr(<<"http", ":", "/", "/", "evil">>)},
        auth : AuthHeaders]
\* requests of a well-behaved extension
PlainRequests ==
  [method : {"GET", "POST"}, url : {"/tabs"}, origin : {NoHeader}, auth : {Bearer(Token1)}]

\* authorised requests for /tabs, sent by an extension page or by a client
\* that sends no Origin
AllowedRequests ==
  [method : {"GET", "POST"}, url : {"/tabs"},
   origin : {NoHeader, Hdr(<<"chrome-extension", ":", "/", "/", "abc">>)},
   auth : {Bearer(Token1)}]

PostRequests ==
  [method : {"POST"}, url : {"/tabs"}, origin : {NoHeader}, auth : {Bearer(Token1)}]

IdleConn == [st |-> "idle"]

Text(u) == <<u>>
NoBody == <<>>

\* the request handler up to the point where it has answered or has registered
\* the data/end listeners of an authorised POST /tabs
Route(req, token, tabs) ==
  IF ~HeaderFalsy(req.origin) /\ ~isAllowedOrigin(req.origin)
  THEN [status |-> 403, body |-> Text("Forbidden")]
  ELSE IF req.method = "OPTIONS" THEN [status |-> 204, body |-> NoBody]
  ELSE IF req.method = "GET" /\ req.url = "/ping"
  THEN [status |-> 200, body |-> Text("ThreadKeeper relay OK")]
  ELSE IF req.method = "GET" /\ req.url = "/token"
  THEN [status |-> 200, body |-> Text(token)]
  ELSE IF req.method = "POST" /\ req.url = "/tabs"
  THEN IF ~isAuthorized(req.auth, token)
       THEN [status |-> 401, body |-> Text("Unauthorized")]
       ELSE [status |-> 0, body |-> NoBody]
  ELSE IF req.method = "GET" /\ req.url = "/tabs"
  THEN IF ~isAuthorized(req.auth, token)
       THEN [status |-> 401, body |-> Text("Unauthorized")]
       ELSE [status |-> 200, body |-> JsonStringify(JArr(tabs))]
  ELSE [status |-> 404, body |-> NoBody]

\* http.createServer((req, res) => ...): one request arrives on connection c;
\* its client is going to send one of `bodies`
Request(c, req, bodies) ==
  /\ conns[c].st = "idle"
  /\ LET r == Route(req, authToken, latestTabs) IN
       IF r.status = 0
       THEN /\ \E bytes \in bodies :
                 conns' = [conns EXCEPT ![c] =
                   [st |-> "recv", req |-> req, bytes |-> bytes, pos |-> 0,
                    body |-> <<>>, bodyBytes |-> 0, sent |-> <<>>]]
            /\ ev' = ev
       ELSE /\ conns' = conns
            /\ ev' = [kind |-> "resp", req |-> req, status |-> r.status, body |-> r.body]
  /\ UNCHANGED <<latestTabs, authToken, pushed, lastAccepted>>

\* bodyBytes > MAX_BODY_BYTES
OverLimitOffByOne(n) == n > MAX_BODY_BYTES + 2
OverLimit(n) == n > MAX_BODY_BYTES

\* req.on('data', chunk => ...): the next k byte units of the body arrive
PostData(c, k) ==
  /\ conns[c].st = "recv"
  /\ k >= 1
  /\ conns[c].pos + k <= Len(conns[c].bytes)
  /\ LET cn == conns[c]
         chunkStr == BufferToString(SubSeq(cn.bytes, cn.pos + 1, cn.pos + k))
         n == cn.bodyBytes + ByteLength(chunkStr)
     IN IF OverLimit(n)
        THEN \* 413, res.end, req.destroy(): no later data or end event
             /\ conns' = [conns EXCEPT ![c] =
                  [cn EXCEPT !.st = "destroyed", !.pos = cn.pos + k,
                             !.bodyBytes = n, !.sent = Append(cn.sent, 413)]]
        ELSE /\ conns' = [conns EXCEPT ![c] =
                  [cn EXCEPT !.pos = cn.pos + k,
                             !.bodyBytes = n, !.body = cn.body \o chunkStr]]
  /\ UNCHANGED <<latestTabs, authToken, ev, pushed, lastAccepted>>

\* the filter callback t => t.url && /^https?:\/\//.test(t.url)
RelayKeepNoScheme(t) == Truthy(GetProp(t, KeyUrl))
RelayKeep(t) ==
  Truthy(GetProp(t, KeyUrl)) /\ HttpRegex(ToStr(GetProp(t, KeyUrl)))

\* reading t.url throws a TypeError for null
FilterThrows(a) == \E i \in DOMAIN a : a[i].t \in {"null", "undef"}

\* what the end handler's try block does with a body text: the new value of
\* latestTabs, or no assignment (a parse error, no array, or a thrown TypeError)
IngestWhole(text) ==
  LET parsed == JsonParse(text) IN
  IF parsed.ok /\ parsed.val.t = "arr"
  THEN [assign |-> TRUE, tabs |-> parsed.val.v]
  ELSE [assign |-> FALSE]
IngestAnyJson(text) ==
  LET parsed == JsonParse(text) IN
  IF parsed.ok /\ (parsed.val.t # "arr" \/ ~FilterThrows(parsed.val.v))
  THEN [assign |-> TRUE,
        tabs |-> IF parsed.val.t = "arr"
                 THEN SelectSeq(parsed.val.v, RelayKeep) ELSE <<>>]
  ELSE [assign |-> FALSE]
Ingest(text) ==
  LET parsed == JsonParse(text) IN
  IF parsed.ok /\ parsed.val.t = "arr" /\ ~FilterThrows(parsed.val.v)
  THEN [assign |-> TRUE, tabs |-> SelectSeq(parsed.val.v, RelayKeep)]
  ELSE [assign |-> FALSE]

\* req.on('end', ...): the whole body has arrived
PostEnd(c) ==
  /\ conns[c].st = "recv"
  /\ conns[c].pos = Len(conns[c].bytes)
  /\ LET cn == conns[c]
         got == Ingest(cn.body)
         sentArr == Ingest(BufferToString(cn.bytes))
     IN /\ latestTabs' = IF got.assign THEN got.tabs ELSE latestTabs
        /\ pushed' = (pushed \/ got.assign)
        /\ lastAccepted' = IF sentArr.assign THEN sentArr.tabs ELSE lastAccepted
        /\ conns' = [conns EXCEPT ![c] =
             [cn EXCEPT !.st = "done", !.sent = Append(cn.sent, 200)]]
  /\ UNCHANGED <<authToken, ev>>

\* the client goes away before the body is complete: no end event
ClientAbort(c) ==
  /\ conns[c].st = "recv"
  /\ conns[c].pos < Len(conns[c].bytes)
  /\ conns' = [conns EXCEPT ![c] = IdleConn]
  /\ UNCHANGED <<latestTabs, authToken, ev, pushed, lastAccepted>>

\* the connection of an answered POST is closed
Close(c) ==
  /\ conns[c].st \in {"done", "destroyed"}
  /\ conns' = [conns EXCEPT ![c] = IdleConn]
  /\ UNCHANGED <<latestTabs, authToken, ev, pushed, lastAccepted>>

\* module load followed by startRelayServer()
RelayInit ==
  /\ latestTabs = <<>>
  /\ authToken = Token1
  /\ conns = [c \in 1..NumConns |-> IdleConn]
  /\ ev = [kind |-> "none"]
  /\ pushed = FALSE
  /\ lastAccepted = <<>>

Conns == 1..NumConns

(* ------------------------------------------------------------------ *)
(* Tab collector (browser-collector.ts, appended to history-collector.ts) *)
(* ------------------------------------------------------------------ *)
VARIABLES
  isMac         \* platform.ts: process.platform === 'darwin'

BrowserTab(url, title, browser) == [url |-> url, title |-> title, browser |-> browser]

\* String.prototype.toLowerCase on the units the inputs use
Lower(u) ==
  CASE u \in {"Google Chrome", "GOOGLE CHROME"} -> "google chrome"
    [] u = "Microsoft Edge" -> "microsoft edge"
    [] u = "Chromium" -> "chromium"
    [] u = "Code" -> "code"
    [] u = "Notes" -> "notes"
    [] u = "Chrome" -> "chrome"
    [] u = "Finder" -> "finder"
    [] u = "TextInputHost" -> "textinputhost"
    [] u = "A" -> "a"
    [] OTHER -> u

\* does r match  \s*[-\u2013|]\s*(Google Chrome|Microsoft Edge|Chromium)\s*$  from
\* its first unit on (flag i)
SuffixMatches(r) ==
  LET a == TrimLeft(r) IN
  /\ a # <<>>
  /\ Head(a) \in {"-", "U+2013", "|"}
  /\ LET b == TrimLeft(Tail(a)) IN
       /\ b # <<>>
       /\ Lower(Head(b)) \in {"google chrome", "microsoft edge", "chromium"}
       /\ TrimLeft(Tail(b)) = <<>>

\* title.replace(/\s*[-\u2013|]\s*(Google Chrome|Microsoft Edge|Chromium)\s*$/i, '')
StripBrowserSuffix(s) ==
  IF \E i \in 1..Len(s) : SuffixMatches(SubSeq(s, i, Len(s)))
  THEN LET i == CHOOSE i \in 1..Len(s) :
                  /\ SuffixMatches(SubSeq(s, i, Len(s)))
                  /\ \A j \in 1..(i - 1) : ~SuffixMatches(SubSeq(s, j, Len(s)))
       IN SubSeq(s, 1, i - 1)
  ELSE s

KeyType == <<"type">>
KeyProc == <<"proc">>
KeyWinTitle == <<"winTitle">>

\* an external tool or port: it fails (error, timeout), or it outputs a text
Failed == [fail |-> TRUE]
Output(text) == [fail |-> FALSE, out |-> text]

\* the filter callback of getTabsViaCDP
CdpKeepAnyType(t) ==
  Truthy(GetProp(t, KeyUrl)) /\ HttpRegex(ToStr(GetProp(t, KeyUrl)))
CdpKeep(t) ==
  /\ GetProp(t, KeyType) = JStr(<<"page">>)
  /\ Truthy(GetProp(t, KeyUrl))
  /\ HttpRegex(ToStr(GetProp(t, KeyUrl)))

\* t.title?.replace(...).trim() || t.url
CdpTitle(t) ==
  LET ti == GetProp(t, KeyTitle) IN
  IF ti.t = "str" /\ Trim(StripBrowserSuffix(ti.v)) # <<>>
  THEN JStr(Trim(StripBrowserSuffix(ti.v)))
  ELSE GetProp(t, KeyUrl)

\* the statements of the try block throw: tabs is no array, an element is
\* null, or a kept element's title has no replace method
CdpThrows(parsed) ==
  \/ parsed.t # "arr"
  \/ \E i \in DOMAIN parsed.v :
       \/ parsed.v[i].t \in {"null", "undef"}
       \/ /\ CdpKeep(parsed.v[i])
          /\ GetProp(parsed.v[i], KeyTitle).t \notin {"str", "undef", "null"}

getTabsViaCDP(port) ==
  IF port.fail THEN <<>>
  ELSE LET parsed == JsonParse(port.out) IN
       IF ~parsed.ok \/ CdpThrows(parsed.val) THEN <<>>
       ELSE LET kept == SelectSeq(parsed.val.v, CdpKeep) IN
            [i \in DOMAIN kept |->
               BrowserTab(GetProp(kept[i], KeyUrl), CdpTitle(kept[i]), JStr(<<"chrome">>))]

\* x || fallback
OrElse(x, y) == IF Truthy(x) THEN x ELSE y

\* the first filter callback of getTabsViaUIA
UiaIsEntry(x) ==
  /\ Truthy(x)
  /\ x.t \in {"obj", "arr"}
  /\ GetProp(x, KeyUrl).t = "str"

UiaTabHttp(t) == HttpRegex(t.url.v)

getTabsViaUIA(tool) ==
  IF tool.fail THEN <<>>
  ELSE LET trimmed == Trim(tool.out) IN
       IF trimmed = <<>> \/ trimmed = <<"[", "]">> THEN <<>>
       ELSE LET raw == JsonParse(trimmed) IN
            IF ~raw.ok THEN <<>>
            ELSE LET arr == IF raw.val.t = "arr" THEN raw.val.v ELSE <<raw.val>>
                     ent == SelectSeq(arr, UiaIsEntry)
                     mapped == [i \in DOMAIN ent |->
                        BrowserTab(
                          JStr(ToStr(GetProp(ent[i], KeyUrl))),
                          JStr(ToStr(OrElse(GetProp(ent[i], KeyWinTitle), GetProp(ent[i], KeyUrl)))),
                          JStr(ToStr(OrElse(GetProp(ent[i], KeyProc), JStr(<<"browser">>)))))]
                 IN SelectSeq(mapped, UiaTabHttp)

\* the tabs one osascript run contributes: stdout has one "url \t title" line
\* per tab
AppleLineOk(line) ==
  line # <<>> /\ Split(line, "\t")[1] # <<>> /\ HttpRegex(Split(line, "\t")[1])

AppleTabs(tool, proc) ==
  IF tool.fail \/ Trim(tool.out) = <<>> THEN <<>>
  ELSE LET lines == SelectSeq(Split(Trim(tool.out), "\n"), AppleLineOk) IN
       [i \in DOMAIN lines |->
          LET f == Split(lines[i], "\t")
              title == Join(Tail(f), "\t")
          IN BrowserTab(JStr(f[1]), JStr(IF title # <<>> THEN title ELSE f[1]), JStr(<<proc>>))]

\* tools[1..3]: Google Chrome, Microsoft Edge, Brave Browser; tools[4]: Safari
getTabsViaAppleScript(tools) ==
  AppleTabs(tools[1], "chrome") \o AppleTabs(tools[2], "msedge") \o
  AppleTabs(tools[3], "brave") \o AppleTabs(tools[4], "safari")

\* const merged = cdpTabs.length > 0 ? cdpTabs : fallbackTabs
MergedBoth(cdpTabs, fallbackTabs) == cdpTabs \o fallbackTabs
Merged(cdpTabs, fallbackTabs) ==
  IF Len(cdpTabs) > 0 THEN cdpTabs ELSE fallbackTabs

\* merged.filter(t => { if (seen.has(t.url)) return false; seen.add(t.url); ... })
RECURSIVE UniqueFrom(_, _)
UniqueFrom(tabs, seen) ==
  IF tabs = <<>> THEN <<>>
  ELSE IF Head(tabs).url \in seen THEN UniqueFrom(Tail(tabs), seen)
       ELSE <<Head(tabs)>> \o UniqueFrom(Tail(tabs), seen \cup {Head(tabs).url})
NoDedupe(tabs) == tabs
Unique(tabs) == UniqueFrom(tabs, {})

\* relayTabs.map(t => ({ url: t.url, title: t.title, browser: 'chrome' }))
RelayMapped(relayTabs) ==
  [i \in DOMAIN relayTabs |->
     BrowserTab(GetProp(relayTabs[i], KeyUrl), GetProp(relayTabs[i], KeyTitle),
                JStr(<<"chrome">>))]

\* if (relayTabs.length > 0)
UseRelayAlways(relayTabs) == TRUE
UseRelay(relayTabs) == Len(relayTabs) > 0

\* .slice(0, 30)
CapNone(tabs) == tabs
Cap(tabs) == SliceTo(tabs, TAB_CAP)

\* collectBrowserTabs, given what getRelayTabs() returned and what the two
\* other sources return when they are asked
collectBrowserTabs(relayTabs, cdpTabs, fallbackTabs) ==
  IF UseRelay(relayTabs)
  THEN Cap(RelayMapped(relayTabs))
  ELSE Cap(Unique(Merged(cdpTabs, fallbackTabs)))

(* inputs of the collector *)
CdpTab(type, url, title) ==
  JObj(<<<<KeyType, JStr(<<type>>)>>, <<KeyUrl, JStr(url)>>, <<KeyTitle, JStr(title)>>>>)

CdpLong ==
  [i \in 1..(LongLen + 1) |->
     CdpTab("page", UrlN(IF i = 2 THEN 1 ELSE i), <<"T">>)]

CdpPorts ==
  { Failed,
    Output(<<"<", "html", ">">>),
    Output(<<"{", "}">>),
    Output(<<"[", "]">>),
    Output(JsonStringify(JArr(<<
      CdpTab("page", UrlA, <<"A", " ", "-", " ", "Google Chrome">>),
      CdpTab("page", UrlB, <<"B">>)>>))),
    Output(JsonStringify(JArr(<<
      CdpTab("page", UrlA, <<" ", "|", "GOOGLE CHROME", " ">>),
      CdpTab("page", UrlA, <<"A2">>),
      CdpTab("iframe", UrlB, <<"F">>),
      CdpTab("page", <<"chrome", ":", "/", "/", "newtab">>, <<"N">>),
      JObj(<<<<KeyType, JStr(<<"page">>)>>, <<KeyUrl, JStr(UrlE)>>>>)>>))),
    Output(JsonStringify(JArr(<<CdpTab("page", UrlA, <<"A">>), JNull>>))),
    Output(JsonStringify(JArr(CdpLong))) }

UiaEntry(proc, url, title) ==
  JObj(<<<<KeyProc, JStr(<<proc>>)>>, <<KeyUrl, JStr(url)>>, <<KeyWinTitle, JStr(title)>>>>)

UiaTools ==
  { Failed,
    Output(<<"[", "]", "\n">>),
    Output(<<"oops">>),
    Output(JsonStringify(UiaEntry("msedge", <<"http", "s", ":", "/", "/", "c">>, <<"C">>)) \o <<"\n">>),
    Output(JsonStringify(JArr(<<
      UiaEntry("chrome", UrlA, <<>>),
      UiaEntry("firefox", UrlA, <<"A">>),
      UiaEntry("chrome", UrlFile, <<"F">>),
      JObj(<<<<KeyUrl, JNum(1)>>>>),
      JNull>>))) }

AppleOutputs ==
  { Failed,
    Output(<<>>),
    Output(UrlA \o <<"\t", "A", "\n">> \o UrlB \o <<"\t", "B", "\t", "x", "\n">>),
    Output(UrlFile \o <<"\t", "F", "\n", "\n">> \o UrlA \o <<"\n", "missing value", "\t", "M", "\n">>) }

\* what the sources can return
CdpResults == { getTabsViaCDP(p) : p \in CdpPorts }
UiaResults == { getTabsViaUIA(t) : t \in UiaTools }
AppleResults ==
  { getTabsViaAppleScript(<<a, b, Failed, c>>) :
      a \in AppleOutputs, b \in {Failed, Output(<<>>)}, c \in AppleOutputs }

\* one call of collectBrowserTabs; the relay is read when it is called, the
\* other sources are asked only if that read is empty
Collect(cdpTabs, fallbackTabs) ==
  /\ ev' = [kind |-> "collect",
            relay |-> latestTabs,
            pushed |-> pushed,
            queried |-> ~UseRelay(latestTabs),
            cdp |-> IF UseRelay(latestTabs) THEN <<>> ELSE cdpTabs,
            fallback |-> IF UseRelay(latestTabs) THEN <<>> ELSE fallbackTabs,
            result |-> collectBrowserTabs(latestTabs, cdpTabs, fallbackTabs)]
  /\ UNCHANGED <<latestTabs, authToken, conns, pushed, lastAccepted, isMac>>

FallbackResults == IF isMac THEN AppleResults ELSE UiaResults

(* ------------------------------------------------------------------ *)
(* Session store (session-store.ts)                                    *)
(* ------------------------------------------------------------------ *)
VARIABLES
  sessFiles,    \* sessions/<id>.json, by id
  hmacFiles,    \* sessions/<id>.hmac, by id
  indexFile,    \* index.json
  keyFile,      \* .hmac-key
  keyWritable,  \* whether .hmac-key can be created
  keysMade,     \* how many keys crypto.randomBytes has produced
  idsMade,      \* how many ids uuidv4 has produced
  saving        \* the saveSession call in progress

storeVars ==
  <<sessFiles, hmacFiles, indexFile, keyFile, keyWritable, keysMade, idsMade,
    saving>>

\* a file is its bytes; reading a file that does not exist throws
NoFile == [exists |-> FALSE, text |-> <<>>]
File(text) == [exists |-> TRUE, text |-> text]
\* fs.writeFileSync(path, text): the file holds the text's UTF-8 bytes
Written(text) == File(Utf8(text))
\* fs.readFileSync(path, 'utf-8'): the bytes decoded, U+FFFD for what is not
\* UTF-8
ReadFile(f) == BufferToString(f.text)

\* uuidv4() and crypto.randomBytes(32).toString('hex'): the n-th value
\* differs from every earlier one
Id(n) == <<"id", DigitUnits[n + 1]>>
Key(n) == <<"key", DigitUnits[n + 1]>>
IdOld == <<"old">>
StoreIds == {IdOld} \cup {Id(n) : n \in 1..MaxSaves}

KeyId == <<"id">>
KeyCapturedAt == <<"capturedAt">>
KeyWindows == <<"windows">>
KeyClipboard == <<"clipboard">>
KeyRecentFiles == <<"recentFiles">>
KeyBrowserTabs == <<"browserTabs">>
KeyBrowserHistory == <<"browserHistory">>
KeyBrowserUrls == <<"browserUrls">>
KeyAiSummary == <<"aiSummary">>
KeyUserNote == <<"userNote">>
KeyApproved == <<"approved">>
KeyBrowser == <<"browser">>

\* getHmacKey(): the key in the key file, or a new key, which is kept only
\* if the key file can be written
getHmacKey(kf, writable, made) ==
  IF kf.exists
  THEN [key |-> Trim(ReadFile(kf)), keyFile |-> kf, keysMade |-> made]
  ELSE [key |-> Key(made + 1),
        keyFile |-> IF writable THEN Written(Key(made + 1)) ELSE kf,
        keysMade |-> made + 1]

\* HMAC-SHA256 as a function that tells apart any two (key, data) pairs
Hmac(key, data) == <<"hmac">> \o key \o <<"|">> \o data \o <<"$">>

computeHmac(data, kf, writable, made) ==
  LET k == getHmacKey(kf, writable, made) IN
  [digest |-> Hmac(k.key, data), keyFile |-> k.keyFile, keysMade |-> k.keysMade]

\* readIndex(): whatever index.json parses to, [] if absent or unparsable
readIndex(f) ==
  IF ~f.exists THEN JArr(<<>>)
  ELSE LET r == JsonParse(ReadFile(f)) IN IF r.ok THEN r.val ELSE JArr(<<>>)

writeIndex(index) == Written(JsonStringifyIndent(index, 0))

\* s[key] = value on an object
SetProp(s, key, value) == JObj(PutMember(s.v, key, value))

\* { ...a, ...b } member by member
RECURSIVE SpreadFrom(_, _, _)
SpreadFrom(m, src, i) ==
  IF i > Len(src) THEN m
  ELSE SpreadFrom(PutMember(m, src[i][1], src[i][2]), src, i + 1)
Spread(a, b) == JObj(SpreadFrom(a.v, b.v, 1))

\* normalizeSession(s); ok is FALSE where it throws a TypeError
normalizeSession(s) ==
  IF s.t # "obj" THEN [ok |-> FALSE]
  ELSE LET urls == GetProp(s, KeyBrowserUrls)
           list == IF urls.t \in {"undef", "null"} THEN JArr(<<>>) ELSE urls
           withTabs ==
             IF Truthy(GetProp(s, KeyBrowserTabs)) THEN s
             ELSE SetProp(s, KeyBrowserTabs,
                    JArr([i \in DOMAIN list.v |->
                      JObj(<<<<KeyUrl, list.v[i]>>, <<KeyTitle, list.v[i]>>,
                             <<KeyBrowser, JStr(<<"browser">>)>>>>)]))
       IN IF ~Truthy(GetProp(s, KeyBrowserTabs)) /\ list.t # "arr"
          THEN [ok |-> FALSE]
          ELSE [ok |-> TRUE,
                val |-> IF Truthy(GetProp(withTabs, KeyBrowserHistory))
                        THEN withTabs
                        ELSE SetProp(withTabs, KeyBrowserHistory, JArr(<<>>))]

\* loadSession(id): the session or null, and what the call leaves in the key
\* file
loadSessionSignedOnly(id, sf, hf, kf, writable, made) ==
  LET raw == ReadFile(sf[id])
      c == computeHmac(raw, kf, writable, made)
      parsed == JsonParse(raw)
      s == IF parsed.ok THEN normalizeSession(parsed.val) ELSE [ok |-> FALSE]
  IN IF ~sf[id].exists
     THEN [result |-> JNull, keyFile |-> kf, keysMade |-> made]
     ELSE [result |-> IF ~hf[id].exists \/ Trim(ReadFile(hf[id])) # c.digest
                      THEN JNull
                      ELSE IF s.ok THEN s.val ELSE JNull,
           keyFile |-> c.keyFile, keysMade |-> c.keysMade]
loadSession(id, sf, hf, kf, writable, made) ==
  LET raw == ReadFile(sf[id])
      c == IF hf[id].exists THEN computeHmac(raw, kf, writable, made)
           ELSE [digest |-> <<>>, keyFile |-> kf, keysMade |-> made]
      parsed == JsonParse(raw)
      s == IF parsed.ok THEN normalizeSession(parsed.val) ELSE [ok |-> FALSE]
  IN IF ~sf[id].exists
     THEN [result |-> JNull, keyFile |-> kf, keysMade |-> made]
     ELSE [result |-> IF hf[id].exists /\ Trim(ReadFile(hf[id])) # c.digest
                      THEN JNull
                      ELSE IF s.ok THEN s.val ELSE JNull,
           keyFile |-> c.keyFile, keysMade |-> c.keysMade]

\* the order in which saveSession writes its files
SaveOrderIndexFirst == <<"index", "session", "hmac">>
SaveOrder == <<"session", "hmac", "index">>

NotSaving == [active |-> FALSE, step |-> 0, x |-> JNull, session |-> JNull,
              json |-> <<>>]

\* saveSession(data) up to its first write: the session object and its text
SaveSessionBegin(x, at) ==
  /\ ~saving.active
  /\ idsMade < MaxSaves
  /\ LET session == Spread(JObj(<<<<KeyId, JStr(Id(idsMade + 1))>>,
                                  <<KeyCapturedAt, JStr(at)>>>>), x)
     IN saving' = [active |-> TRUE, step |-> 0, x |-> x, session |-> session,
                   json |-> JsonStringifyIndent(session, 0)]
  /\ idsMade' = idsMade + 1
  /\ ev' = [kind |-> "saving"]
  /\ UNCHANGED <<sessFiles, hmacFiles, indexFile, keyFile, keyWritable,
                 keysMade>>

\* after a write: the next write, or the return of the session
SaveAdvance ==
  IF saving.step + 1 = Len(SaveOrder)
  THEN /\ saving' = NotSaving
       /\ ev' = [kind |-> "saved", x |-> saving.x, session |-> saving.session]
  ELSE /\ saving' = [saving EXCEPT !.step = saving.step + 1]
       /\ ev' = ev

SavingId == GetProp(saving.session, KeyId).v

\* fs.writeFileSync(sessionFile, sessionJson)
WriteSessionFile ==
  /\ saving.active
  /\ SaveOrder[saving.step + 1] = "session"
  /\ sessFiles' = [sessFiles EXCEPT ![SavingId] = Written(saving.json)]
  /\ SaveAdvance
  /\ UNCHANGED <<hmacFiles, indexFile, keyFile, keyWritable, keysMade, idsMade>>

\* fs.writeFileSync(hmacFile, computeHmac(sessionJson))
WriteHmacFile ==
  /\ saving.active
  /\ SaveOrder[saving.step + 1] = "hmac"
  /\ keyFile.exists \/ keysMade < MaxKeys
  /\ LET c == computeHmac(saving.json, keyFile, keyWritable, keysMade) IN
       /\ hmacFiles' = [hmacFiles EXCEPT ![SavingId] = Written(c.digest)]
       /\ keyFile' = c.keyFile
       /\ keysMade' = c.keysMade
  /\ SaveAdvance
  /\ UNCHANGED <<sessFiles, indexFile, keyWritable, idsMade>>

IndexEntry(session) ==
  JObj(<<<<KeyId, GetProp(session, KeyId)>>,
         <<KeyCapturedAt, GetProp(session, KeyCapturedAt)>>,
         <<KeyAiSummary, GetProp(session, KeyAiSummary)>>>>)

\* readIndex(), index.unshift(entry), writeIndex(index); unshift throws on
\* an index that is not an array, and saveSession ends there
WriteIndexFile ==
  /\ saving.active
  /\ SaveOrder[saving.step + 1] = "index"
  /\ LET index == readIndex(indexFile) IN
       IF index.t = "arr"
       THEN /\ indexFile' =
                 writeIndex(JArr(<<IndexEntry(saving.session)>> \o index.v))
            /\ SaveAdvance
       ELSE /\ indexFile' = indexFile
            /\ saving' = NotSaving
            /\ ev' = [kind |-> "threw"]
  /\ UNCHANGED <<sessFiles, hmacFiles, keyFile, keyWritable, keysMade, idsMade>>

\* the bytes a write leaves when it is cut short
Torn(text) == SubSeq(text, 1, Len(text) \div 2)

\* the process dies during saveSession, before its next step or in the
\* middle of it: a file half written, or the key made and the signature not
\* yet written
Crash(torn) ==
  /\ saving.active
  /\ LET what == SaveOrder[saving.step + 1] IN
       /\ sessFiles' = IF torn /\ what = "session"
                       THEN [sessFiles EXCEPT ![SavingId] =
                               File(Torn(Utf8(saving.json)))]
                       ELSE sessFiles
       /\ indexFile' =
            IF torn /\ what = "index" /\ readIndex(indexFile).t = "arr"
            THEN File(Torn(writeIndex(JArr(<<IndexEntry(saving.session)>> \o
                                           readIndex(indexFile).v)).text))
            ELSE indexFile
       /\ IF torn /\ what = "hmac"
          THEN /\ keyFile.exists \/ keysMade < MaxKeys
               /\ LET k == getHmacKey(keyFile, keyWritable, keysMade) IN
                     keyFile' = k.keyFile /\ keysMade' = k.keysMade
          ELSE UNCHANGED <<keyFile, keysMade>>
  /\ saving' = NotSaving
  /\ ev' = [kind |-> "crashed"]
  /\ UNCHANGED <<hmacFiles, keyWritable, idsMade>>

\* loadSession(id) called by the application; keysMade in the record of the
\* call says how many keys the call made
Load(id) ==
  /\ ~saving.active
  /\ ~hmacFiles[id].exists \/ keyFile.exists \/ keysMade < MaxKeys
  /\ LET r == loadSession(id, sessFiles, hmacFiles, keyFile, keyWritable,
                          keysMade)
     IN /\ ev' = [kind |-> "load", id |-> id, result |-> r.result,
                  keysMade |-> r.keysMade - keysMade]
        /\ keyFile' = r.keyFile
        /\ keysMade' = r.keysMade
  /\ UNCHANGED <<sessFiles, hmacFiles, indexFile, keyWritable, idsMade, saving>>

\* a change made to a file's bytes from outside the application: the first
\* byte or the summary replaced, the last byte dropped, or the bytes of
\* U+FFFD replaced by one byte that is not UTF-8
ReplaceAt(bytes, i, b) == [bytes EXCEPT ![i] = b]
Tamperings(bytes) ==
  ({ ReplaceAt(bytes, i, "X") :
       i \in {j \in DOMAIN bytes : j = 1 \/ bytes[j] = "summary"} }
   \cup { ReplaceAt(bytes, i, "A9") : i \in {j \in DOMAIN bytes : bytes[j] = "FFFD"} }
   \cup { SubSeq(bytes, 1, Len(bytes) - 1) })
  \ {bytes}

\* whether the session file is as saveSession signed it, under the key it
\* had then
Signed(id) ==
  /\ sessFiles[id].exists /\ hmacFiles[id].exists
  /\ \E n \in 0..keysMade :
       Trim(ReadFile(hmacFiles[id])) = Hmac(Key(n), ReadFile(sessFiles[id]))

\* someone rewrites a signed session file and leaves its signature file
Tamper(id) ==
  /\ ~saving.active
  /\ Signed(id)
  /\ \E bytes \in Tamperings(sessFiles[id].text) :
       sessFiles' = [sessFiles EXCEPT ![id] = File(bytes)]
  /\ ev' = [kind |-> "tampered", id |-> id, was |-> sessFiles[id].text]
  /\ UNCHANGED <<hmacFiles, indexFile, keyFile, keyWritable, keysMade, idsMade,
                 saving>>

\* someone deletes a session's signature file
RemoveHmac(id) ==
  /\ ~saving.active
  /\ hmacFiles[id].exists
  /\ hmacFiles' = [hmacFiles EXCEPT ![id] = NoFile]
  /\ ev' = [kind |-> "unsigned", id |-> id]
  /\ UNCHANGED <<sessFiles, indexFile, keyFile, keyWritable, keysMade, idsMade,
                 saving>>

\* someone deletes a session file
RemoveSession(id) ==
  /\ ~saving.active
  /\ sessFiles[id].exists
  /\ sessFiles' = [sessFiles EXCEPT ![id] = NoFile]
  /\ ev' = [kind |-> "deleted", id |-> id]
  /\ UNCHANGED <<hmacFiles, indexFile, keyFile, keyWritable, keysMade, idsMade,
                 saving>>

\* entry.id
EntryId(entry) == GetProp(entry, KeyId)

\* loadSession(e.id) for an entry of the index
LoadEntry(id, sf, hf, kf, writable, made) ==
  IF id.t = "str" /\ id.v \in StoreIds
  THEN loadSession(id.v, sf, hf, kf, writable, made)
  ELSE [result |-> JNull, keyFile |-> kf, keysMade |-> made]

\* readIndex().map(e => loadSession(e.id)): the calls one after the other,
\* each seeing the key file that the one before it left; ok is FALSE where
\* e.id throws
Last(acc, first) == IF acc = <<>> THEN first ELSE acc[Len(acc)]
RECURSIVE LoadEach(_, _, _, _, _, _, _)
LoadEach(entries, i, sf, hf, writable, first, acc) ==
  IF i > Len(entries) \/ entries[i].t = "null"
  THEN [ok |-> i > Len(entries),
        results |-> [k \in DOMAIN acc |-> acc[k].result],
        keyFile |-> Last(acc, first).keyFile,
        keysMade |-> Last(acc, first).keysMade]
  ELSE LoadEach(entries, i + 1, sf, hf, writable, first,
                Append(acc, LoadEntry(EntryId(entries[i]), sf, hf,
                                      Last(acc, first).keyFile, writable,
                                      Last(acc, first).keysMade)))

\* .filter(s => s !== null)
NotNullReversed(results) ==
  LET kept == SelectSeq(results, LAMBDA s : s.t # "null") IN
  [i \in DOMAIN kept |-> kept[Len(kept) + 1 - i]]
NotNull(results) == SelectSeq(results, LAMBDA s : s.t # "null")

\* loadAllSessions(); ok is FALSE where it throws
LoadAllFrom(index, sf, hf, kf, writable, made) ==
  IF index.t # "arr"
  THEN [ok |-> FALSE, results |-> <<>>, keyFile |-> kf, keysMade |-> made]
  ELSE LoadEach(index.v, 1, sf, hf, writable,
                [result |-> JNull, keyFile |-> kf, keysMade |-> made], <<>>)
Sessions(r) ==
  [ok |-> r.ok, sessions |-> IF r.ok THEN NotNull(r.results) ELSE <<>>,
   keyFile |-> r.keyFile, keysMade |-> r.keysMade]
loadAllSessions(f, sf, hf, kf, writable, made) ==
  Sessions(LoadAllFrom(readIndex(f), sf, hf, kf, writable, made))

\* the load-sessions handler
LoadAll ==
  /\ ~saving.active
  /\ keyFile.exists \/ keysMade < MaxKeys
  /\ LET r == loadAllSessions(indexFile, sessFiles, hmacFiles, keyFile,
                              keyWritable, keysMade)
     IN /\ ev' = [kind |-> "loadAll", ok |-> r.ok, sessions |-> r.sessions]
        /\ keyFile' = r.keyFile
        /\ keysMade' = r.keysMade
  /\ UNCHANGED <<sessFiles, hmacFiles, indexFile, keyWritable, idsMade, saving>>

\* the clock counts days; an instant as toISOString() writes it, its date
\* written as the number of its day
RECURSIVE Digits(_)
Digits(n) ==
  IF n < 10 THEN <<DigitUnits[n + 1]>>
  ELSE Append(Digits(n \div 10), DigitUnits[(n % 10) + 1])
ToISOString(day) == <<"day">> \o Digits(day) \o <<"T00:00:00.000Z">>

RECURSIVE DigitsValue(_)
DigitsValue(units) ==
  IF units = <<>> THEN 0
  ELSE 10 * DigitsValue(SubSeq(units, 1, Len(units) - 1))
       + DigitOf(units[Len(units)])

\* new Date(x).getTime(): nan where the date is invalid
NaN == [nan |-> TRUE, t |-> 0]
Time(t) == [nan |-> FALSE, t |-> t]
GetTime(x) ==
  CASE x.t = "str" ->
         LET u == x.v IN
         IF /\ Len(u) >= 3 /\ u[1] = "day" /\ u[Len(u)] = "T00:00:00.000Z"
            /\ \A i \in 2..(Len(u) - 1) : u[i] \in Range(DigitUnits)
         THEN Time(DigitsValue(SubSeq(u, 2, Len(u) - 1)))
         ELSE NaN
    [] x.t = "num" -> Time(x.v)
    [] x.t = "null" -> Time(0)
    [] x.t = "bool" -> Time(IF x.v THEN 1 ELSE 0)
    [] OTHER -> NaN

\* new Date(entry.capturedAt).getTime() < cutoff
IsOldInclusive(entry, cutoff) ==
  LET ts == GetTime(GetProp(entry, KeyCapturedAt)) IN ~ts.nan /\ ts.t <= cutoff
IsOld(entry, cutoff) ==
  LET ts == GetTime(GetProp(entry, KeyCapturedAt)) IN ~ts.nan /\ ts.t < cutoff

\* the ids of the entries whose files are unlinked
Gone(toRemove) ==
  { EntryId(toRemove[i]).v :
      i \in {j \in DOMAIN toRemove : EntryId(toRemove[j]).t = "str"} }
UnlinkNothing(files, gone) == files
Unlink(files, gone) ==
  [id \in DOMAIN files |-> IF id \in gone THEN NoFile ELSE files[id]]

\* the loop over the index, the unlinks and the rewrite of the index
PruneEntries(toRemove, kept, f, sf, hf) ==
  [ok |-> TRUE, removed |-> Len(toRemove),
   indexFile |-> IF Len(toRemove) > 0 THEN writeIndex(JArr(kept)) ELSE f,
   sessFiles |-> Unlink(sf, Gone(toRemove)),
   hmacFiles |-> Unlink(hf, Gone(toRemove))]

PruneIndex(index, cutoff, f, sf, hf) ==
  IF index.t # "arr" \/ \E i \in DOMAIN index.v : index.v[i].t = "null"
  THEN [ok |-> FALSE, removed |-> 0, indexFile |-> f, sessFiles |-> sf,
        hmacFiles |-> hf]
  ELSE PruneEntries(SelectSeq(index.v, LAMBDA e : IsOld(e, cutoff)),
                    SelectSeq(index.v, LAMBDA e : ~IsOld(e, cutoff)),
                    f, sf, hf)

\* pruneOldSessions(maxAgeDays) at the instant now; ok is FALSE where it
\* throws. A file that is not there is passed over.
pruneOldSessions(maxAgeDays, now, f, sf, hf) ==
  PruneIndex(readIndex(f), now - maxAgeDays, f, sf, hf)

\* the application calls pruneOldSessions; the record of the call keeps the
\* files it found
Prune(maxAgeDays, now) ==
  /\ ~saving.active
  /\ LET r == pruneOldSessions(maxAgeDays, now, indexFile, sessFiles, hmacFiles)
     IN /\ indexFile' = r.indexFile
        /\ sessFiles' = r.sessFiles
        /\ hmacFiles' = r.hmacFiles
        /\ ev' = [kind |-> "prune", ok |-> r.ok, removed |-> r.removed,
                  maxAgeDays |-> maxAgeDays, now |-> now,
                  indexFile |-> indexFile, sessFiles |-> sessFiles,
                  hmacFiles |-> hmacFiles]
  /\ UNCHANGED <<keyFile, keyWritable, keysMade, idsMade, saving>>

\* what approve-session hands to saveSession
Snapshot(windows, clipboard, recentFiles, tabs, history, summary, note) ==
  JObj(<<<<KeyWindows, JArr(windows)>>,
         <<KeyClipboard, JStr(clipboard)>>,
         <<KeyRecentFiles, JArr(recentFiles)>>,
         <<KeyBrowserTabs, JArr(tabs)>>,
         <<KeyBrowserHistory, JArr(history)>>,
         <<KeyAiSummary, JStr(summary)>>,
         <<KeyUserNote, JStr(note)>>,
         <<KeyApproved, JBool(TRUE)>>>>)

StoredTab(url, title, browser) ==
  JObj(<<<<KeyUrl, JStr(url)>>, <<KeyTitle, JStr(title)>>,
         <<KeyBrowser, JStr(browser)>>>>)

SnapEmpty == Snapshot(<<>>, <<>>, <<>>, <<>>, <<>>, <<>>, <<>>)
\* text with the characters JSON escapes: quotes, a backslash, a line break
SnapFull ==
  Snapshot(
    <<JObj(<<<<<<"name">>, JStr(<<"Code">>)>>,
             <<KeyTitle, JStr(<<"a.ts", " ", "-", " ", "Code">>)>>>>)>>,
    <<"say", " ", "\"", "hi", "\"", "\n">>,
    <<JStr(<<"C:", "\\", "notes.txt">>)>>,
    <<StoredTab(UrlA, <<"A">>, <<"chrome">>)>>,
    <<JObj(<<<<KeyUrl, JStr(UrlB)>>, <<KeyTitle, JStr(<<"B">>)>>,
             <<<<"visitedAt">>, JStr(<<"2024-01-01T00:00:00.000Z">>)>>,
             <<KeyBrowser, JStr(<<"edge">>)>>>>)>>,
    <<"summary">>,
    <<"note", "FFFD">>)
Snapshots == {SnapEmpty, SnapFull}

\* new Date().toISOString() at the n-th save: the clock has moved on
Instant(n) == ToISOString(280 + n)

\* a session as a version of the application before browserTabs and
\* signatures stored it: the URLs are a list of strings
LegacySession(urls) ==
  JObj(<<<<KeyId, JStr(IdOld)>>,
         <<KeyCapturedAt, JStr(ToISOString(100))>>,
         <<KeyWindows, JArr(<<>>)>>,
         <<KeyClipboard, JStr(<<>>)>>,
         <<KeyRecentFiles, JArr(<<>>)>>,
         <<KeyBrowserUrls, JArr([i \in DOMAIN urls |-> JStr(urls[i])])>>,
         <<KeyAiSummary, JStr(<<"old">>)>>,
         <<KeyUserNote, JStr(<<>>)>>,
         <<KeyApproved, JBool(TRUE)>>>>)
LegacySessions ==
  { LegacySession(urls) : urls \in {<<UrlA>>, <<UrlA, UrlFile>>} }

\* the data directory at startup: empty, or holding one legacy session
StoreInit ==
  /\ \E old \in {JNull} \cup LegacySessions :
       /\ sessFiles = [id \in StoreIds |->
            IF id = IdOld /\ old.t = "obj"
            THEN Written(JsonStringifyIndent(old, 0)) ELSE NoFile]
       /\ indexFile = IF old.t = "obj"
                      THEN writeIndex(JArr(<<IndexEntry(old)>>)) ELSE NoFile
  /\ hmacFiles = [id \in StoreIds |-> NoFile]
  /\ keyFile \in {NoFile, Written(Key(0))}
  /\ keyWritable \in BOOLEAN
  /\ keysMade = 0
  /\ idsMade = 0
  /\ saving = NotSaving

\* the store untouched, where only the relay and the collector run
StoreIdle ==
  /\ sessFiles = [id \in StoreIds |-> NoFile]
  /\ hmacFiles = [id \in StoreIds |-> NoFile]
  /\ indexFile = NoFile
  /\ keyFile = NoFile
  /\ keyWritable = TRUE
  /\ keysMade = 0
  /\ idsMade = 0
  /\ saving = NotSaving

(* ------------------------------------------------------------------ *)
(* Restoration (main.ts, restore-session)                              *)
(* ------------------------------------------------------------------ *)
URL_CAP == 20

KeyName == <<"name">>

\* toLowerCase of a string
LowerStr(str) == [i \in DOMAIN str |-> Lower(str[i])]

BROWSER_PROCESSES ==
  {<<"msedge">>, <<"chrome">>, <<"firefox">>, <<"brave">>, <<"opera">>,
   <<"iexplore">>, <<"safari">>}
MAC_SKIP ==
  {<<"loginwindow">>, <<"dock">>, <<"finder">>, <<"systemuiserver">>,
   <<"spotlight">>}
WIN_SKIP ==
  {<<"textinputhost">>, <<"applicationframehost">>, <<"shellexperiencehost">>,
   <<"searchhost">>, <<"lockapp">>, <<"startmenuexperiencehost">>,
   <<"nvidia", " ", "overlay">>, <<"nvcontainer">>}

\* BROWSER_EXE[cfg.defaultBrowser] ?? (isMac ? 'safari' : 'msedge')
PreferredBrowser(defaultBrowser, mac) ==
  CASE defaultBrowser = <<"edge">> -> <<"msedge">>
    [] defaultBrowser \in {<<"chrome">>, <<"firefox">>, <<"brave">>} -> defaultBrowser
    [] OTHER -> IF mac THEN <<"safari">> ELSE <<"msedge">>

\* the units of a name that are one character other than a letter or a
\* digit; every other unit is a word of letters and digits
Punctuation ==
  {".", "_", "-", " ", ";", "|", "`", "\"", "'", "&", "$", "(", ")", "/",
   "\\", ":", "\n"}
\* /^[a-zA-Z0-9._\- ]+$/.test(name)
SafeAnyName(name) == TRUE
SAFE_PROCESS_NAME(name) ==
  /\ name # <<>>
  /\ \A i \in DOMAIN name :
       name[i] \in {".", "_", "-", " "} \/ name[i] \notin Punctuation

\* what a command did: nothing seen, a running instance brought to the
\* foreground, or the process started
NoEffect == "none"
Focus == "focus"
Start == "start"

Threw == [threw |-> TRUE, stdout |-> <<>>, effect |-> NoEffect]
Ran(stdout, effect) == [threw |-> FALSE, stdout |-> stdout, effect |-> effect]

\* osascript -e 'tell application "<name>" activate ... return "focused"':
\* activate brings the application to the foreground and starts it first
\* if it is not running; the script fails for an application that does not
\* exist, or when it takes over 5 s
Osascript(name, env) ==
  IF LowerStr(name) \in env.hangs \cup env.missing THEN Threw
  ELSE Ran(<<"focused", "\n">>,
           IF LowerStr(name) \in env.running THEN Focus ELSE Start)

\* open -a <name>
OpenApp(name, env) ==
  IF LowerStr(name) \in env.missing THEN Threw
  ELSE Ran(<<>>, IF LowerStr(name) \in env.running THEN Focus ELSE Start)

\* the PowerShell script: SetForegroundWindow on a running process that has
\* a window and "focused", else Start-Process, its error silenced, and
\* "launched"
PowerShell(name, env) ==
  IF LowerStr(name) \in env.hangs THEN Threw
  ELSE IF LowerStr(name) \in env.running THEN Ran(<<"focused", "\n">>, Focus)
  ELSE Ran(<<"launched", "\n">>,
           IF LowerStr(name) \in env.missing THEN NoEffect ELSE Start)

Command(tool, name, r) == [tool |-> tool, name |-> name, effect |-> r.effect]
\* `${name} (${outcome})`
Outcome(name, outcome) == name \o <<" ", "(">> \o outcome \o <<")">>

\* the state of the loop over session.windows
NoWindows ==
  [threw |-> FALSE, seen |-> {}, launched |-> <<>>, commands |-> <<>>]
Thrown(st) == [st EXCEPT !.threw = TRUE]

\* one window on macOS: osascript, and open -a if that fails
MacAttempt(name, env, st, osa, open) ==
  [st EXCEPT
     !.seen = st.seen \cup {LowerStr(name)},
     !.commands = st.commands \o <<Command("osascript", name, osa)>> \o
                  (IF osa.threw THEN <<Command("open", name, open)>> ELSE <<>>),
     !.launched = st.launched \o
                  (IF ~osa.threw THEN <<Outcome(name, Trim(osa.stdout))>>
                   ELSE IF ~open.threw THEN <<Outcome(name, <<"launched">>)>>
                   ELSE <<>>)]

MacWindow(win, env, st) ==
  IF GetProp(win, KeyName).t # "str" THEN Thrown(st)
  ELSE IF \/ LowerStr(GetProp(win, KeyName).v) \in MAC_SKIP
          \/ LowerStr(GetProp(win, KeyName).v) \in BROWSER_PROCESSES
          \/ ~SAFE_PROCESS_NAME(GetProp(win, KeyName).v)
          \/ LowerStr(GetProp(win, KeyName).v) \in st.seen
  THEN st
  ELSE MacAttempt(GetProp(win, KeyName).v, env, st,
                  Osascript(GetProp(win, KeyName).v, env),
                  OpenApp(GetProp(win, KeyName).v, env))

\* one window on Windows: PowerShell; processName is the preferred browser
\* for a browser's window
WinAttempt(processName, env, st, r) ==
  [st EXCEPT
     !.seen = st.seen \cup {LowerStr(processName)},
     !.commands = Append(st.commands, Command("powershell", processName, r)),
     !.launched = st.launched \o
                  (IF r.threw THEN <<>>
                   ELSE <<Outcome(processName, Trim(r.stdout))>>)]

WinProcess(name, preferred) ==
  IF LowerStr(name) \in BROWSER_PROCESSES THEN preferred ELSE name

WinWindow(win, preferred, env, st) ==
  IF GetProp(win, KeyName).t # "str" THEN Thrown(st)
  ELSE IF \/ LowerStr(GetProp(win, KeyName).v) \in WIN_SKIP
          \/ ~SAFE_PROCESS_NAME(WinProcess(GetProp(win, KeyName).v, preferred))
          \/ LowerStr(WinProcess(GetProp(win, KeyName).v, preferred)) \in st.seen
  THEN st
  ELSE WinAttempt(WinProcess(GetProp(win, KeyName).v, preferred), env, st,
                  PowerShell(WinProcess(GetProp(win, KeyName).v, preferred), env))

\* for (const win of session.windows): a throw ends the handler
RECURSIVE RestoreWindows(_, _, _, _, _, _)
RestoreWindows(windows, i, mac, preferred, env, st) ==
  IF i > Len(windows) \/ st.threw THEN st
  ELSE RestoreWindows(windows, i + 1, mac, preferred, env,
         IF mac THEN MacWindow(windows[i], env, st)
         ELSE WinWindow(windows[i], preferred, env, st))

\* session.windows as the loop sees it: an array, or a value that cannot be
\* iterated
Windows(session, mac, preferred, env) ==
  IF GetProp(session, KeyWindows).t = "arr"
  THEN RestoreWindows(GetProp(session, KeyWindows).v, 1, mac, preferred, env,
                      NoWindows)
  ELSE Thrown(NoWindows)

\* the clipboard step: session.clipboard?.trim(), clipboard.writeText
Clipboard(session, env) ==
  LET c == GetProp(session, KeyClipboard) IN
  [threw |-> c.t \notin {"undef", "null", "str"},
   attempted |-> c.t = "str" /\ Trim(c.v) # <<>>,
   restored |-> c.t = "str" /\ Trim(c.v) # <<>> /\ ~env.clipboardFails]

\* (session.browserTabs ?? []).map(t => t.url)
TabsOrEmpty(session) ==
  IF GetProp(session, KeyBrowserTabs).t \in {"undef", "null"} THEN JArr(<<>>)
  ELSE GetProp(session, KeyBrowserTabs)
MapUrl(tabs) == [i \in DOMAIN tabs |-> GetProp(tabs[i], KeyUrl)]
\* .concat(session.browserUrls ?? [])
Concat(a, x) ==
  CASE x.t \in {"undef", "null"} -> a
    [] x.t = "arr" -> a \o x.v
    [] OTHER -> Append(a, x)
\* .filter((u, i, a) => a.indexOf(u) === i): indexOf compares with ===, so
\* an array or an object equals only itself
Primitive(x) == x.t \in {"undef", "null", "bool", "num", "str"}
RECURSIVE DedupeFrom(_, _)
DedupeFrom(a, i) ==
  IF i > Len(a) THEN <<>>
  ELSE (IF Primitive(a[i]) /\ \E j \in 1..(i - 1) : a[j] = a[i]
        THEN <<>> ELSE <<a[i]>>) \o DedupeFrom(a, i + 1)
KeepAll(a) == a
Dedupe(a) == DedupeFrom(a, 1)

\* the list tabUrls; threw where .map or t.url throws
TabUrls(session) ==
  LET tabs == TabsOrEmpty(session) IN
  IF tabs.t # "arr" \/ \E i \in DOMAIN tabs.v : tabs.v[i].t \in {"undef", "null"}
  THEN [threw |-> TRUE, urls |-> <<>>]
  ELSE [threw |-> FALSE,
        urls |-> SliceTo(
                   SelectSeq(Dedupe(Concat(MapUrl(tabs.v),
                                           GetProp(session, KeyBrowserUrls))),
                             LAMBDA u : HttpRegex(ToStr(u))),
                   URL_CAP)]

\* new URL(url): the protocol and the href, the host in lower case and "/"
\* for an empty path; it throws without a scheme, and for http(s) without
\* a host or with a space in the host
BadUrl == [ok |-> FALSE, protocol |-> <<>>, href |-> <<>>]
FirstSlash(rest) ==
  IF \E i \in DOMAIN rest : rest[i] = "/"
  THEN CHOOSE i \in DOMAIN rest : rest[i] = "/" /\ \A j \in 1..(i - 1) : rest[j] # "/"
  ELSE Len(rest) + 1
HttpUrl(scheme, rest) ==
  LET k == FirstSlash(rest)
      host == SubSeq(rest, 1, k - 1)
      path == SubSeq(rest, k, Len(rest))
  IN IF host = <<>> \/ \E i \in DOMAIN host : host[i] = " " THEN BadUrl
     ELSE [ok |-> TRUE, protocol |-> Append(scheme, ":"),
           href |-> scheme \o <<":", "/", "/">> \o LowerStr(host) \o
                    (IF path = <<>> THEN <<"/">> ELSE path)]
ParseUrl(url) ==
  CASE StartsWith(url, <<"http", ":", "/", "/">>) ->
         HttpUrl(<<"http">>, SubSeq(url, 5, Len(url)))
    [] StartsWith(url, <<"http", "s", ":", "/", "/">>) ->
         HttpUrl(<<"http", "s">>, SubSeq(url, 6, Len(url)))
    [] Len(url) >= 2 /\ url[2] = ":" /\ url[1] \notin Punctuation ->
         [ok |-> TRUE, protocol |-> <<url[1], ":">>, href |-> url]
    [] OTHER -> BadUrl

\* for (const url of tabUrls): parse, test the protocol, open, count; a
\* throw of new URL or of shell.openExternal is swallowed
OpensOf(urls, env) ==
  LET parsed == [i \in DOMAIN urls |-> ParseUrl(ToStr(urls[i]))]
      tried == {i \in DOMAIN urls :
                  /\ parsed[i].ok
                  /\ parsed[i].protocol \in {<<"http", ":">>, <<"http", "s", ":">>}}
      tries == SelectSeq([i \in DOMAIN urls |->
                           [i |-> i, url |-> urls[i], href |-> parsed[i].href,
                            ok |-> parsed[i].href \notin env.badUrls]],
                         LAMBDA o : o.i \in tried)
  IN [opened |-> [i \in DOMAIN tries |-> [url |-> tries[i].url, href |-> tries[i].href]],
      urlsOpened |-> Len(SelectSeq(tries, LAMBDA o : o.ok))]

OpenUrlsUnfiltered(session, env) ==
  LET all == Concat(MapUrl(TabsOrEmpty(session).v),
                    GetProp(session, KeyBrowserUrls))
  IN [threw |-> FALSE,
      opened |-> [i \in DOMAIN all |-> [url |-> all[i], href |-> ToStr(all[i])]],
      urlsOpened |-> Len(all)]
OpenUrls(session, env) ==
  LET t == TabUrls(session)
      o == OpensOf(t.urls, env)
  IN [threw |-> t.threw, opened |-> o.opened, urlsOpened |-> o.urlsOpened]

\* what the handler did and what it returned; returned is FALSE where it
\* threw, and then nothing after the throw was done
NotFound ==
  [returned |-> TRUE, success |-> FALSE, launched |-> <<>>, urlsOpened |-> 0,
   clipboardRestored |-> FALSE, clipboardWrites |-> 0, commands |-> <<>>,
   opened |-> <<>>]
Restored(clip, wins, urls) ==
  [returned |-> ~(clip.threw \/ wins.threw \/ urls.threw),
   success |-> TRUE,
   launched |-> wins.launched,
   urlsOpened |-> urls.urlsOpened,
   clipboardRestored |-> clip.restored,
   clipboardWrites |-> IF clip.attempted THEN 1 ELSE 0,
   commands |-> wins.commands,
   opened |-> urls.opened]
NoUrls == [threw |-> FALSE, opened |-> <<>>, urlsOpened |-> 0]
AfterClipboard(session, mac, preferred, env, clip) ==
  IF clip.threw THEN Restored(clip, NoWindows, NoUrls)
  ELSE LET wins == Windows(session, mac, preferred, env) IN
       Restored(clip, wins, IF wins.threw THEN NoUrls ELSE OpenUrls(session, env))

\* the restore-session handler on what loadSession returned
restoreSession(session, mac, defaultBrowser, env) ==
  IF ~Truthy(session) THEN NotFound
  ELSE AfterClipboard(session, mac, PreferredBrowser(defaultBrowser, mac), env,
                      Clipboard(session, env))

\* restore-session(id), with the configured browser and the machine's
\* answers
RestoreWith(id, defaultBrowser, env, l) ==
  /\ keyFile' = l.keyFile
  /\ keysMade' = l.keysMade
  /\ ev' = [kind |-> "restore", id |-> id, session |-> l.result,
            defaultBrowser |-> defaultBrowser, env |-> env,
            result |-> restoreSession(l.result, isMac, defaultBrowser, env)]
Restore(id, defaultBrowser, env) ==
  /\ ~saving.active
  /\ ~hmacFiles[id].exists \/ keyFile.exists \/ keysMade < MaxKeys
  /\ RestoreWith(id, defaultBrowser, env,
                 loadSession(id, sessFiles, hmacFiles, keyFile, keyWritable,
                             keysMade))
  /\ UNCHANGED <<sessFiles, hmacFiles, indexFile, keyWritable, idsMade, saving>>

\* stored sessions as restore-session may find them
Win(name) == JObj(<<<<KeyName, JStr(name)>>, <<KeyTitle, JStr(<<"t">>)>>>>)
RSession(summary, windows, clipboard, tabs, urls) ==
  JObj(<<<<KeyId, JStr(IdOld)>>,
         <<KeyCapturedAt, JStr(ToISOString(100))>>,
         <<KeyWindows, windows>>,
         <<KeyClipboard, JStr(clipboard)>>,
         <<KeyRecentFiles, JArr(<<>>)>>,
         <<KeyBrowserTabs, JArr([i \in DOMAIN tabs |->
                                  StoredTab(tabs[i], <<"t">>, <<"chrome">>)])>>,
         <<KeyBrowserHistory, JArr(<<>>)>>,
         <<KeyBrowserUrls, JArr([i \in DOMAIN urls |-> JStr(urls[i])])>>,
         <<KeyAiSummary, JStr(summary)>>,
         <<KeyUserNote, JStr(<<>>)>>,
         <<KeyApproved, JBool(TRUE)>>>>)

UrlOk == <<"http", "s", ":", "/", "/", "ok.example">>
UrlAlert == <<"javascript", ":", "alert(1)">>
UrlASlash == <<"http", ":", "/", "/", "a", "/">>
UrlAUpper == <<"http", ":", "/", "/", "A">>
UrlNoHost == <<"http", ":", "/", "/">>

\* applications, a name that differs in case only, system processes, and a
\* name that the pattern rejects before a name that it accepts
SessApps ==
  RSession(<<"apps">>,
           JArr(<<Win(<<"Code">>), Win(<<"bad", ";", "rm">>), Win(<<"code">>),
                  Win(<<"TextInputHost">>), Win(<<"Finder">>),
                  Win(<<"Notes">>)>>),
           <<"hi">>, <<>>, <<>>)
\* browsers' windows beside an application, and a tab
SessBrowsers ==
  RSession(<<"browsers">>,
           JArr(<<Win(<<"chrome">>), Win(<<"Code">>), Win(<<"msedge">>)>>),
           <<" ">>, <<UrlB>>, <<>>)
\* names with the characters a shell gives a meaning to, and names with
\* every character the pattern allows
SessUnsafe ==
  RSession(<<"unsafe">>,
           JArr(<<Win(<<"a", "|", "b">>), Win(<<"x", "`", "id", "`">>),
                  Win(<<"q", "\"", "r">>), Win(<<"o", "'", "p">>),
                  Win(<<"my", "-", "app", ".", "v2", " ", "x">>),
                  Win(<<"under", "_", "score">>), Win(<<>>)>>),
           <<>>, <<>>, <<>>)
\* the session of the claim: javascript:alert(1) and https://ok.example
SessExample ==
  RSession(<<"example">>, JArr(<<>>), <<>>, <<UrlAlert, UrlOk>>, <<>>)
\* URLs that repeat within and across the two lists, that differ as
\* strings and are one URL once parsed, and that are not http(s)
SessUrls ==
  RSession(<<"urls">>, JArr(<<>>), <<>>,
           <<UrlA, UrlB, UrlA, UrlFile, UrlNoHost>>,
           <<UrlB, UrlASlash, UrlJs, UrlAUpper, UrlASlash, UrlInner>>)
\* more URLs than the cap
SessMany ==
  RSession(<<"many">>, JArr(<<>>), <<>>,
           [i \in 1..(URL_CAP + 1) |-> UrlN(i)], <<>>)
\* a session file without a windows array
SessNoWindows ==
  RSession(<<"nowindows">>, JNull, <<"hi">>, <<UrlA>>, <<>>)
RestoreSessions ==
  {SessApps, SessBrowsers, SessUnsafe, SessExample, SessUrls, SessMany,
   SessNoWindows}

\* the machine's answers: whether the clipboard can be written, the
\* processes that run with a window, the ones whose command times out, the
\* applications that do not exist, and the URLs that cannot be opened
Env(clipboardFails, running, hangs, missing, badUrls) ==
  [clipboardFails |-> clipboardFails, running |-> running, hangs |-> hangs,
   missing |-> missing, badUrls |-> badUrls]
Envs ==
  { Env(FALSE, {}, {}, {}, {}),
    Env(FALSE, {<<"code">>, <<"notes">>, <<"msedge">>}, {}, {}, {}),
    Env(FALSE, {}, {<<"code">>}, {}, {}),
    Env(FALSE, {<<"code">>}, {<<"code">>}, {<<"notes">>}, {}),
    Env(TRUE, {}, {}, {<<"code">>}, {Append(UrlB, "/")}) }
DefaultBrowsers == {<<"edge">>, <<"chrome">>, <<"vivaldi">>}

\* the data directory with one unsigned session file, or none
(* ------------------------------------------------------------------ *)
(* Browser history reader                                              *)
(* ------------------------------------------------------------------ *)
VARIABLES
  scratch,      \* the scratch copies ck-hist-<ms>.db that exist in os.tmpdir()
  hist          \* the collectBrowserHistory call in progress

\* the clock of the history reader counts minutes; Chrome's epoch lies
\* 11,644,473,600,000 ms before the Unix epoch
CHROME_EPOCH_OFFSET == 194074560
ROW_CAP == 60
HISTORY_CAP == 40

\* chromeTimeToDate(chromeTime).toISOString(), and the instant it denotes
chromeTimeToDate(chromeTime) == chromeTime - CHROME_EPOCH_OFFSET
nowToChrome(now) == now + CHROME_EPOCH_OFFSET
MinuteISO(minute) == <<"min">> \o Digits(minute) \o <<":00.000Z">>
MinuteOf(visitedAt) == DigitsValue(SubSeq(visitedAt, 2, Len(visitedAt) - 1))

HistoryEntry(url, title, visitedAt, browser) ==
  [url |-> url, title |-> title, visitedAt |-> visitedAt, browser |-> browser]

\* url LIKE 'http://%' OR url LIKE 'https://%': LIKE ignores the case of
\* ASCII letters
LikeHttp(url) ==
  url # <<>> /\ url[1] \in {"http://", "https://", "HTTP://", "HTTPS://"}

\* ORDER BY last_visit_time DESC
RECURSIVE InsertDesc(_, _)
InsertDesc(sorted, row) ==
  IF sorted = <<>> THEN <<row>>
  ELSE IF sorted[1].visit < row.visit THEN <<row>> \o sorted
  ELSE <<sorted[1]>> \o InsertDesc(Tail(sorted), row)
RECURSIVE OrderDesc(_, _, _)
OrderDesc(rows, i, sorted) ==
  IF i > Len(rows) THEN sorted
  ELSE OrderDesc(rows, i + 1, InsertDesc(sorted, rows[i]))

\* db.exec(SELECT url, title, last_visit_time FROM urls WHERE ... LIMIT 60)
Exec(rows, cutoffChrome) ==
  SliceTo(OrderDesc(SelectSeq(rows, LAMBDA r :
                      r.visit > cutoffChrome /\ LikeHttp(r.url)), 1, <<>>),
          ROW_CAP)

\* the entries pushed for the rows of one profile
EntriesOf(values, name) ==
  [i \in DOMAIN values |->
     HistoryEntry(values[i].url,
                  IF Truthy(values[i].title) THEN ToStr(values[i].title)
                  ELSE values[i].url,
                  MinuteISO(chromeTimeToDate(values[i].visit)),
                  name)]

\* the try block of one profile: copyFileSync, readFileSync, new
\* SQL.Database, exec; threw where one of them throws
ReadProfile(profile, cutoffChrome) ==
  IF profile.copy # "ok" \/ ~profile.opens \/ ~profile.hasTable
  THEN [threw |-> TRUE, entries |-> <<>>]
  ELSE [threw |-> FALSE,
        entries |-> EntriesOf(Exec(profile.rows, cutoffChrome), profile.name)]

\* the scratch copies after copyFileSync: a copy that fails leaves no file or
\* part of one
AfterCopy(files, tempPath, copy) ==
  IF copy = "fails" THEN files ELSE files \cup {tempPath}

\* finally { try { fs.unlinkSync(tempPath) } catch {} }
AfterProfileOnSuccess(files, tempPath, threw) ==
  IF threw THEN files ELSE files \ {tempPath}
AfterProfile(files, tempPath, threw) == files \ {tempPath}

\* e.url.replace(/[?#].*$/, '')
RECURSIVE StripQuery(_, _)
StripQuery(url, i) ==
  IF i > Len(url) THEN url
  ELSE IF url[i] \in {"?", "#"} THEN SubSeq(url, 1, i - 1)
  ELSE StripQuery(url, i + 1)
HistoryKey(e) == StripQuery(e.url, 1)

\* allEntries.filter(e => { if (seen.has(key)) return false; seen.add(key);
\* return true })
RECURSIVE UniqueHistoryFrom(_, _, _)
UniqueHistoryFrom(entries, i, seen) ==
  IF i > Len(entries) THEN <<>>
  ELSE IF HistoryKey(entries[i]) \in seen
       THEN UniqueHistoryFrom(entries, i + 1, seen)
       ELSE <<entries[i]>> \o
            UniqueHistoryFrom(entries, i + 1, seen \cup {HistoryKey(entries[i])})
UniqueHistory(allEntries) == UniqueHistoryFrom(allEntries, 1, {})

NoHistory == [active |-> FALSE, profiles |-> <<>>, i |-> 0, cutoffChrome |-> 0,
              allEntries |-> <<>>]
TempPath(ms) == <<"ck-hist-", ms, ".db">>

\* collectBrowserHistory(minutesBack) up to its loop: no profile on disk, or
\* no SQL engine, returns []
HistoryBegin(profiles, sqlLoads, now, minutesBack) ==
  /\ ~hist.active
  /\ IF profiles = <<>> \/ ~sqlLoads
     THEN /\ hist' = NoHistory
          /\ ev' = [kind |-> "history", allEntries |-> <<>>, result |-> <<>>]
     ELSE /\ hist' = [active |-> TRUE, profiles |-> profiles, i |-> 1,
                      cutoffChrome |-> nowToChrome(now) - minutesBack,
                      allEntries |-> <<>>]
          /\ ev' = [kind |-> "reading"]
  /\ UNCHANGED scratch

\* one round of the loop over the profiles, its finally block included
HistoryProfile(ms) ==
  /\ hist.active
  /\ hist.i <= Len(hist.profiles)
  /\ LET profile == hist.profiles[hist.i]
         r == ReadProfile(profile, hist.cutoffChrome)
         copied == AfterCopy(scratch, TempPath(ms), profile.copy)
     IN /\ scratch' = AfterProfile(copied, TempPath(ms), r.threw)
        /\ hist' = [hist EXCEPT !.i = @ + 1, !.allEntries = @ \o r.entries]
        /\ ev' = [kind |-> "profile", copied |-> TempPath(ms) \in copied,
                  threw |-> r.threw, entries |-> r.entries]

\* after the loop: de-duplication, the cap and the return
HistoryEnd ==
  /\ hist.active
  /\ hist.i > Len(hist.profiles)
  /\ hist' = NoHistory
  /\ ev' = [kind |-> "history", allEntries |-> hist.allEntries,
            result |-> SliceTo(UniqueHistory(hist.allEntries), HISTORY_CAP)]
  /\ UNCHANGED scratch

\* history databases: rows as (url, title, last_visit_time)
Row(url, title, minute) ==
  [url |-> url, title |-> title, visit |-> nowToChrome(minute)]
Database(name, copy, opens, hasTable, rows) ==
  [name |-> name, copy |-> copy, opens |-> opens, hasTable |-> hasTable,
   rows |-> rows]
HistNow == 1000
RowsChrome ==
  <<Row(<<"http://", "a">>, JStr(<<"A">>), 970),
    Row(<<"http://", "a", "?", "x=1">>, JNull, 990),
    Row(<<"http://", "b">>, JStr(<<"B">>), 980),
    Row(<<"http://", "old">>, JStr(<<"Old">>), 900),
    Row(<<"file://", "x">>, JStr(<<"X">>), 995)>>
RowsEdge ==
  <<Row(<<"http://", "a", "#", "top">>, JStr(<<"A">>), 999),
    Row(<<"https://", "c">>, JStr(<<"C">>), 960)>>
Databases ==
  {Database(<<"chrome">>, "ok", TRUE, TRUE, RowsChrome),
   Database(<<"edge">>, "ok", TRUE, TRUE, RowsEdge),
   Database(<<"brave">>, "ok", TRUE, TRUE, <<>>),
   Database(<<"edge">>, "fails", TRUE, TRUE, RowsEdge),
   Database(<<"edge">>, "partial", TRUE, TRUE, RowsEdge),
   Database(<<"brave">>, "ok", FALSE, TRUE, RowsEdge),
   Database(<<"chrome">>, "ok", TRUE, FALSE, RowsChrome)}
MaxProfiles == 2
ProfileLists ==
  UNION {[1..n -> Databases] : n \in 0..MaxProfiles}
HistoryIdle == scratch = {} /\ hist = NoHistory

(* ------------------------------------------------------------------ *)
(* Capture flow                                                        *)
(* ------------------------------------------------------------------ *)
VARIABLES
  isCapturing,     \* let isCapturing = false
  pendingSession,  \* let pendingSession: (SessionData & {aiSummary}) | null
  captures         \* the captureSession calls that started a collection:
                   \* where each stands, and the context it collected

MaxCaptures == 2
captureVars == <<isCapturing, pendingSession, captures>>

\* x ?? y
OrDefault(x, y) == IF x.t \in {"undef", "null"} THEN y ELSE x

\* saveSession(data) as a whole: the session, the three files it writes and
\* the key it may have made; threw where index.unshift throws on an index
\* that is not an array, after the session and signature files are written
SaveFiles(session, json, c, index, f, sf, hf) ==
  [session |-> session,
   threw |-> index.t # "arr",
   sessFiles |-> [sf EXCEPT ![GetProp(session, KeyId).v] = Written(json)],
   hmacFiles |-> [hf EXCEPT ![GetProp(session, KeyId).v] = Written(c.digest)],
   indexFile |-> IF index.t = "arr"
                 THEN writeIndex(JArr(<<IndexEntry(session)>> \o index.v))
                 ELSE f,
   keyFile |-> c.keyFile,
   keysMade |-> c.keysMade]
SaveJson(session, json, f, sf, hf, kf, writable, made) ==
  SaveFiles(session, json, computeHmac(json, kf, writable, made),
            readIndex(f), f, sf, hf)
SaveObject(session, f, sf, hf, kf, writable, made) ==
  SaveJson(session, JsonStringifyIndent(session, 0), f, sf, hf, kf, writable,
           made)
saveSession(data, id, at, f, sf, hf, kf, writable, made) ==
  SaveObject(Spread(JObj(<<<<KeyId, JStr(id)>>, <<KeyCapturedAt, JStr(at)>>>>),
                    data),
             f, sf, hf, kf, writable, made)

\* t(i18n, key): the text shown for a message key
T(key) == <<"[", key, "]">>

\* what captureContext resolved with at the k-th collection
Context(k) ==
  JObj(<<<<KeyWindows, JArr(<<>>)>>,
         <<KeyClipboard, JStr(<<"ctx", DigitUnits[k + 1]>>)>>,
         <<KeyRecentFiles, JArr(<<>>)>>,
         <<KeyBrowserTabs, JArr(<<>>)>>,
         <<KeyBrowserHistory, JArr(<<>>)>>>>)

\* the text a provider writes for a context
AiText(context) == <<"summary of">> \o GetProp(context, KeyClipboard).v

\* what the call of the provider does: a text, an empty text, or an error
\* with its message; or buildPrompt throws before the provider is called
Answers(text) == [kind |-> "text", text |-> text]
Throws(msg) == [kind |-> "throws", text |-> msg]
PromptThrows == [kind |-> "prompt throws", text |-> <<>>]
ProviderCalls(context) ==
  {Answers(AiText(context)), Answers(<<>>), PromptThrows} \cup
  {Throws(msg) : msg \in {<<"401">>, <<"429">>, <<"404">>, <<"ECONNREFUSED">>,
                          <<"boom">>}}
AiProviders == {"gemini", "ollama"}

\* generateSessionSummary(context): the text it resolves with; ok is FALSE
\* where it rejects
Resolves(text) == [ok |-> TRUE, text |-> text]
Rejects == [ok |-> FALSE, text |-> <<>>]
generateSessionSummaryAsIs(provider, call) ==
  IF call.kind = "text" THEN Resolves(call.text) ELSE Rejects
generateSessionSummary(provider, call) ==
  CASE call.kind = "prompt throws" -> Rejects
    [] call.kind = "text" ->
         Resolves(IF call.text # <<>> THEN call.text
                  ELSE T("err_ai_summary_empty"))
    [] call.text = <<"401">> -> Resolves(T("err_api_key_invalid"))
    [] call.text = <<"429">> -> Resolves(T("err_rate_limit"))
    [] call.text = <<"404">> -> Resolves(T("err_model_not_found"))
    [] call.text = <<"ECONNREFUSED">> ->
         Resolves(IF provider = "ollama" THEN T("err_ollama_connect")
                  ELSE T("err_network"))
    [] OTHER -> Resolves(T("err_ai_fail"))

\* the error placeholders a summary can degrade to
Placeholders ==
  {T(key) : key \in {"err_ai_summary_empty", "err_api_key_invalid",
                     "err_rate_limit", "err_model_not_found",
                     "err_ollama_connect", "err_network", "err_ai_fail"}}

\* captureSession starts a collection only when none is running and no
\* session is pending
MayStartWhilePending(capturing, pending) == ~capturing
MayStart(capturing, pending) == ~capturing /\ pending.t = "null"

Collecting(k) == [phase |-> "collecting", context |-> JNull, wrote |-> JNull]

\* a capture trigger, shortcut or tray: captureSession() up to its first
\* await
Trigger(configured) ==
  /\ Len(captures) < MaxCaptures
  /\ IF configured /\ MayStart(isCapturing, pendingSession)
     THEN /\ isCapturing' = TRUE
          /\ captures' = Append(captures, Collecting(Len(captures) + 1))
     ELSE UNCHANGED <<isCapturing, captures>>
  /\ pendingSession' = pendingSession
  /\ ev' = [kind |-> "trigger", configured |-> configured,
            wasCapturing |-> isCapturing,
            pending |-> pendingSession,
            started |-> configured /\ MayStart(isCapturing, pendingSession),
            sent |-> IF configured /\ MayStart(isCapturing, pendingSession)
                     THEN <<"capture-started">> ELSE <<>>]

\* captureContext settles: on a rejection the capture ends with
\* capture-error; otherwise the context becomes the pending session and
\* generateSessionSummary is called
CollectionEnds(k, rejected) ==
  /\ k \in DOMAIN captures
  /\ captures[k].phase = "collecting"
  /\ isCapturing' = FALSE
  /\ IF rejected
     THEN /\ pendingSession' = pendingSession
          /\ captures' = [captures EXCEPT ![k].phase = "done"]
          /\ ev' = [kind |-> "collected", k |-> k, rejected |-> TRUE,
                    sent |-> <<"capture-error">>]
     ELSE /\ pendingSession' =
               Spread(Context(k), JObj(<<<<KeyAiSummary, JStr(<<>>)>>>>))
          /\ captures' = [captures EXCEPT ![k].phase = "summarising",
                                           ![k].context = Context(k)]
          /\ ev' = [kind |-> "collected", k |-> k, rejected |-> FALSE,
                    sent |-> <<"new-session-pending">>]

\* if (pendingSession) { pendingSession.aiSummary = text; send(...) }
WriteSummary(pending, text) ==
  IF pending.t = "null" THEN pending
  ELSE SetProp(pending, KeyAiSummary, JStr(text))

\* the AI call of capture k settles: its text, or err_ai_fail where it
\* rejected, goes into the pending session if there is one
SummaryEnds(k, provider, call) ==
  /\ k \in DOMAIN captures
  /\ captures[k].phase = "summarising"
  /\ LET r == generateSessionSummary(provider, call)
         text == IF r.ok THEN r.text ELSE T("err_ai_fail")
     IN /\ pendingSession' = WriteSummary(pendingSession, text)
        /\ captures' = [captures EXCEPT ![k].phase = "done",
                                         ![k].wrote = JStr(text)]
        /\ ev' = [kind |-> "summarised", k |-> k, call |-> call,
                  pending |-> pendingSession,
                  sent |-> IF pendingSession.t = "null" THEN <<>>
                           ELSE <<"session-summary-ready">>]
  /\ UNCHANGED isCapturing

\* the argument approve-session builds for saveSession
Approved(pending, userNote) ==
  JObj(<<<<KeyWindows, GetProp(pending, KeyWindows)>>,
         <<KeyClipboard, GetProp(pending, KeyClipboard)>>,
         <<KeyRecentFiles, GetProp(pending, KeyRecentFiles)>>,
         <<KeyBrowserTabs,
           OrDefault(GetProp(pending, KeyBrowserTabs), JArr(<<>>))>>,
         <<KeyBrowserHistory,
           OrDefault(GetProp(pending, KeyBrowserHistory), JArr(<<>>))>>,
         <<KeyAiSummary, GetProp(pending, KeyAiSummary)>>,
         <<KeyUserNote, OrDefault(userNote, JStr(<<>>))>>,
         <<KeyApproved, JBool(TRUE)>>>>)

\* pendingSession after saveSession has returned
AfterApproveKeep(pending) == pending
AfterApprove(pending) == JNull

StoreFiles == <<sessFiles, hmacFiles, indexFile, keyFile>>

\* ipcMain.handle('approve-session')
ApproveWith(userNote, r) ==
  /\ sessFiles' = r.sessFiles
  /\ hmacFiles' = r.hmacFiles
  /\ indexFile' = r.indexFile
  /\ keyFile' = r.keyFile
  /\ keysMade' = r.keysMade
  /\ idsMade' = idsMade + 1
  /\ pendingSession' = IF r.threw THEN pendingSession
                       ELSE AfterApprove(pendingSession)
  /\ ev' = [kind |-> "approve", pending |-> pendingSession,
            userNote |-> userNote, threw |-> r.threw,
            result |-> r.session, files |-> StoreFiles]
ApproveSession(userNote) ==
  /\ ~saving.active
  /\ IF pendingSession.t = "null"
     THEN /\ ev' = [kind |-> "approve", pending |-> pendingSession,
                    userNote |-> userNote, threw |-> FALSE, result |-> JNull,
                    files |-> StoreFiles]
          /\ UNCHANGED <<sessFiles, hmacFiles, indexFile, keyFile, keysMade,
                         idsMade, pendingSession>>
     ELSE /\ idsMade < MaxSaves
          /\ keyFile.exists \/ keysMade < MaxKeys
          /\ ApproveWith(userNote,
               saveSession(Approved(pendingSession, userNote),
                           Id(idsMade + 1), Instant(idsMade + 1), indexFile,
                           sessFiles, hmacFiles, keyFile, keyWritable,
                           keysMade))
  /\ UNCHANGED <<keyWritable, saving, isCapturing, captures>>

\* ipcMain.handle('skip-session')
SkipSession ==
  /\ pendingSession' = JNull
  /\ ev' = [kind |-> "skip", pending |-> pendingSession, files |-> StoreFiles]
  /\ UNCHANGED <<isCapturing, captures>>

UserNotes == {Undefined, JStr(<<"note">>)}
CaptureIdle ==
  isCapturing = FALSE /\ pendingSession = JNull /\ captures = <<>>

(* ------------------------------------------------------------------ *)
(* Context collection (collector.ts and the collectors it calls)       *)
(* ------------------------------------------------------------------ *)
VARIABLE
  ctx   \* the captureContext call in progress

\* a promise or a call that has ended: with a value, or by throwing
Settled(val) == [threw |-> FALSE, val |-> val]
Rejected == [threw |-> TRUE, val |-> <<>>]

KeyPsName == <<"Name">>
KeyMainWindowTitle == <<"MainWindowTitle">>
WindowInfo(name, title) == [name |-> name, title |-> title]

\* (item) => !!item && typeof item === 'object'
IsObject(item) == Truthy(item) /\ item.t \in {"obj", "arr"}
HasTitle(w) == Len(w.title) > 0

\* the statements of collectWindows after the PowerShell run, given its
\* stdout
WindowsOf(stdout) ==
  LET trimmed == Trim(stdout) IN
  IF trimmed = <<>> THEN <<>>
  ELSE LET raw == JsonParse(trimmed) IN
       IF ~raw.ok THEN <<>>
       ELSE LET arr == IF raw.val.t = "arr" THEN raw.val.v ELSE <<raw.val>>
                items == SelectSeq(arr, IsObject)
                mapped == [i \in DOMAIN items |->
                  WindowInfo(
                    ToStr(OrDefault(GetProp(items[i], KeyPsName), JStr(<<>>))),
                    ToStr(OrDefault(GetProp(items[i], KeyMainWindowTitle),
                                    JStr(<<>>))))]
            IN SelectSeq(mapped, HasTitle)

\* collectWindows(): a run that fails or times out is caught
collectWindows(tool) ==
  IF tool.fail THEN Settled(<<>>) ELSE Settled(WindowsOf(tool.out))

RECENT_CAP == 10
CLIP_CAP == 500

\* the Recent folder: whether it exists, whether readdirSync lists it, and
\* its files with their mtime (0 where statSync fails)
RecentDir(exists, lists, files) ==
  [exists |-> exists, lists |-> lists, files |-> files]
DirFile(name, mtime) == [name |-> name, mtime |-> mtime]
RecentPath == <<"Recent", "\\">>

\* .sort((a, b) => b.mtime.getTime() - a.mtime.getTime())
RECURSIVE InsertByMtime(_, _)
InsertByMtime(sorted, x) ==
  IF sorted = <<>> THEN <<x>>
  ELSE IF sorted[1].mtime < x.mtime THEN <<x>> \o sorted
  ELSE <<sorted[1]>> \o InsertByMtime(Tail(sorted), x)
RECURSIVE SortByMtime(_, _, _)
SortByMtime(xs, i, sorted) ==
  IF i > Len(xs) THEN sorted
  ELSE SortByMtime(xs, i + 1, InsertByMtime(sorted, xs[i]))

IsLnk(f) == f.name # <<>> /\ f.name[Len(f.name)] = ".lnk"

\* collectRecentFilesLnk(): the paths of the .lnk files, newest first
collectRecentFilesLnk(dir) ==
  IF ~dir.exists \/ ~dir.lists THEN <<>>
  ELSE LET newest == SliceTo(SortByMtime(SelectSeq(dir.files, IsLnk), 1, <<>>),
                             RECENT_CAP)
       IN [i \in DOMAIN newest |-> JStr(RecentPath \o newest[i].name)]

\* Array.isArray(raw) ? raw : typeof raw === 'string' && raw ? [raw] : []
Resolved(raw) ==
  IF raw.t = "arr" THEN raw.v
  ELSE IF raw.t = "str" /\ raw.v # <<>> THEN <<raw>>
  ELSE <<>>

\* collectRecentFilesWin(): a PowerShell run that fails, or whose output is
\* no JSON, ends in the catch block, which returns collectRecentFilesLnk()
collectRecentFilesWinEmpty(dir, tool) ==
  IF ~dir.exists THEN <<>>
  ELSE IF tool.fail THEN <<>>
  ELSE LET trimmed == Trim(tool.out)
           raw == JsonParse(IF trimmed = <<>> THEN <<"[", "]">> ELSE trimmed)
       IN IF ~raw.ok THEN <<>>
          ELSE SliceTo(SelectSeq(Resolved(raw.val), Truthy), RECENT_CAP)
collectRecentFilesWin(dir, tool) ==
  IF ~dir.exists THEN <<>>
  ELSE IF tool.fail THEN collectRecentFilesLnk(dir)
  ELSE LET trimmed == Trim(tool.out)
           raw == JsonParse(IF trimmed = <<>> THEN <<"[", "]">> ELSE trimmed)
       IN IF ~raw.ok THEN collectRecentFilesLnk(dir)
          ELSE SliceTo(SelectSeq(Resolved(raw.val), Truthy), RECENT_CAP)

\* process.env.HOME
Home == <<"/Users/me">>
MacKeep(f) ==
  /\ f # <<>>
  /\ "/Library/" \notin Range(f)
  /\ ~StartsWith(f, <<"/System">>)
  /\ StartsWith(f, Home)

\* collectRecentFilesMac(): the lines of mdfind under the home directory
collectRecentFilesMac(tool) ==
  IF tool.fail THEN <<>>
  ELSE LET kept == SliceTo(SelectSeq(Split(Trim(tool.out), "\n"), MacKeep),
                           RECENT_CAP)
       IN [i \in DOMAIN kept |-> JStr(kept[i])]

\* collectRecentFiles()
collectRecentFiles(mac, dir, tool) ==
  Settled(IF mac THEN collectRecentFilesMac(tool)
          ELSE collectRecentFilesWin(dir, tool))

\* collectClipboard()
collectClipboard(clip) ==
  IF clip.fail THEN <<>> ELSE SliceTo(clip.out, CLIP_CAP)

\* the rounds of the loop of collectBrowserHistory, one after the other
RECURSIVE AllEntries(_, _, _)
AllEntries(profiles, i, cutoffChrome) ==
  IF i > Len(profiles) THEN <<>>
  ELSE ReadProfile(profiles[i], cutoffChrome).entries \o
       AllEntries(profiles, i + 1, cutoffChrome)

\* collectBrowserHistory(minutesBack) as a whole
collectBrowserHistory(profiles, sqlLoads, now, minutesBack) ==
  Settled(IF profiles = <<>> \/ ~sqlLoads THEN <<>>
          ELSE SliceTo(UniqueHistory(
                         AllEntries(profiles, 1, nowToChrome(now) - minutesBack)),
                       HISTORY_CAP))

\* isMac ? getTabsViaAppleScript() : getTabsViaUIA(); of the four browsers
\* asked on macOS the first one runs
FallbackTabs(mac, tool) ==
  IF mac THEN getTabsViaAppleScript(<<tool, Failed, Failed, Failed>>)
  ELSE getTabsViaUIA(tool)

\* the options of captureContext
CaptureOptions(minutes, clipboardCapture) ==
  [historyMinutesBack |-> minutes, clipboardCapture |-> clipboardCapture]

\* captureContext(opts), given what its four promises settle with: it
\* rejects where one of them rejects
SessionData(w, r, t, h, clipboard) ==
  IF w.threw \/ r.threw \/ t.threw \/ h.threw
  THEN [rejected |-> TRUE, windows |-> <<>>, clipboard |-> <<>>,
        recentFiles |-> <<>>, browserTabs |-> <<>>, browserHistory |-> <<>>]
  ELSE [rejected |-> FALSE, windows |-> w.val, clipboard |-> clipboard,
        recentFiles |-> r.val, browserTabs |-> t.val,
        browserHistory |-> h.val]

\* the tools and files a capture finds
World(mac, relay, win, dir, recent, cdp, fallback, profiles, sqlLoads, clip) ==
  [mac |-> mac, relay |-> relay, win |-> win, dir |-> dir, recent |-> recent,
   cdp |-> cdp, fallback |-> fallback, profiles |-> profiles,
   sqlLoads |-> sqlLoads, clip |-> clip]

captureContext(opts, w) ==
  SessionData(
    collectWindows(w.win),
    collectRecentFiles(w.mac, w.dir, w.recent),
    Settled(collectBrowserTabs(w.relay, getTabsViaCDP(w.cdp),
                               FallbackTabs(w.mac, w.fallback))),
    collectBrowserHistory(w.profiles, w.sqlLoads, HistNow,
                          opts.historyMinutesBack),
    IF opts.clipboardCapture THEN collectClipboard(w.clip) ELSE <<>>)

\* a captureContext call in progress: the tools its collectors have met so
\* far and what their promises settled with
NoWorld ==
  World(FALSE, <<>>, Failed, RecentDir(FALSE, FALSE, <<>>), Failed, Failed,
        Failed, <<>>, FALSE, Failed)
NoContext == [active |-> FALSE, opts |-> CaptureOptions(0, FALSE),
              world |-> NoWorld, settled |-> {}]

\* captureContext(opts) up to its await: the four collectors are started
ContextBegin(opts) ==
  /\ ~ctx.active
  /\ ctx' = [active |-> TRUE, opts |-> opts,
             world |-> [NoWorld EXCEPT !.mac = isMac, !.relay = latestTabs],
             settled |-> {}]
  /\ ev' = [kind |-> "collecting"]

\* one of the four promises settles
Settles(name, w) ==
  /\ ctx.active
  /\ name \notin ctx.settled
  /\ ctx' = [ctx EXCEPT !.world = w, !.settled = @ \cup {name}]
  /\ ev' = [kind |-> "settled", name |-> name]
WindowsSettle(tool) == Settles("windows", [ctx.world EXCEPT !.win = tool])
RecentFilesSettle(dir, tool) ==
  Settles("recentFiles", [ctx.world EXCEPT !.dir = dir, !.recent = tool])
BrowserTabsSettle(cdp, fallback) ==
  Settles("browserTabs", [ctx.world EXCEPT !.cdp = cdp, !.fallback = fallback])
BrowserHistorySettle(profiles, sqlLoads) ==
  Settles("browserHistory",
          [ctx.world EXCEPT !.profiles = profiles, !.sqlLoads = sqlLoads])

\* Promise.all has settled: the clipboard is read and captureContext returns
ContextEnd(clip) ==
  /\ ctx.active
  /\ ctx.settled = {"windows", "recentFiles", "browserTabs", "browserHistory"}
  /\ ctx' = NoContext
  /\ ev' = [kind |-> "context", opts |-> ctx.opts,
            world |-> [ctx.world EXCEPT !.clip = clip],
            result |-> captureContext(ctx.opts, [ctx.world EXCEPT !.clip = clip])]
ContextIdle == ctx = NoContext

(* inputs of captureContext *)
PsWindow(name, title) ==
  JObj(<<<<KeyPsName, JStr(name)>>, <<KeyMainWindowTitle, JStr(title)>>>>)
WindowTools ==
  { Failed,
    Output(<<"\n">>),
    Output(<<"Get-Process", " ", ":", " ", "error">>),
    Output(JsonStringify(PsWindow(<<"code">>, <<"main.ts">>)) \o <<"\n">>),
    Output(JsonStringify(JArr(<<
      PsWindow(<<"chrome">>, <<"Inbox">>),
      PsWindow(<<"idle">>, <<>>),
      JObj(<<<<KeyPsName, JStr(<<"ghost">>)>>>>),
      JNull,
      JStr(<<"text">>),
      PsWindow(<<"notepad">>, <<" ">>)>>))) }
RecentDirs ==
  { RecentDir(FALSE, FALSE, <<>>),
    RecentDir(TRUE, FALSE, <<>>),
    RecentDir(TRUE, TRUE, <<DirFile(<<"a", ".lnk">>, 3),
                            DirFile(<<"desktop", ".ini">>, 9),
                            DirFile(<<"b", ".lnk">>, 5)>>) }
RecentToolsWin ==
  { Failed,
    Output(<<"oops">>),
    Output(<<>>),
    Output(JsonStringify(JArr(<<JStr(<<"C:\\", "one.txt">>), JStr(<<>>),
                                JStr(<<"C:\\", "two.txt">>)>>))) }
RecentToolsMac ==
  { Failed,
    Output(<<>>),
    Output(<<"/Users/me", "/doc.txt", "\n", "/Users/me", "/Library/", "x",
             "\n", "/System", "/y", "\n", "/tmp", "/z", "\n">>) }
ContextCdpPorts ==
  { Failed,
    Output(<<"<", "html", ">">>),
    Output(JsonStringify(JArr(<<CdpTab("page", UrlA, <<"A">>)>>))) }
ContextUiaTools ==
  { Failed,
    Output(<<"oops">>),
    Output(JsonStringify(UiaEntry("msedge", UrlB, <<"B">>)) \o <<"\n">>) }
ContextAppleTools ==
  { Failed,
    Output(UrlB \o <<"\t", "B", "\n">>) }
ContextProfiles ==
  { <<>>,
    <<Database(<<"chrome">>, "ok", TRUE, TRUE, RowsChrome)>>,
    <<Database(<<"chrome">>, "fails", TRUE, TRUE, RowsChrome)>>,
    <<Database(<<"chrome">>, "ok", TRUE, FALSE, RowsChrome),
      Database(<<"edge">>, "ok", TRUE, TRUE, RowsEdge)>> }
Clipboards == { Failed, Output(<<"c", "l", "i", "p">>) }
Options == { CaptureOptions(60, TRUE), CaptureOptions(15, FALSE) }
(* ------------------------------------------------------------------ *)
(* Browser extension (background.js) beside the relay                  *)
(* ------------------------------------------------------------------ *)
VARIABLES
  extToken,   \* let authToken = '' of the extension
  syncs       \* the syncTabs calls made: where each stands

MaxSyncs == 2
MaxRestarts == 1
extVars == <<extToken, syncs>>

\* the tokens generateToken() makes, one at each start of the application
Tokens == <<Token1, "tok2", "tok3", "tok4">>
Epoch(token) == CHOOSE n \in DOMAIN Tokens : Tokens[n] = token

KeyWindowId == <<"windowId">>
OriginOfExtension == Hdr(<<"chrome-extension", ":", "/", "/", "abc">>)

\* a tab as chrome.tabs.query reports it
ChromeTab(url, title, active, windowId) ==
  [url |-> url, title |-> title, active |-> active, windowId |-> windowId]

\* tabs.filter(t => t.url && /^https?:\/\//.test(t.url)).map(t => ({...}))
ExtensionKeep(t) == t.url # <<>> /\ HttpRegex(t.url)
ExtensionData(tabs) ==
  LET kept == SelectSeq(tabs, ExtensionKeep) IN
  [i \in DOMAIN kept |->
     JObj(<<<<KeyUrl, JStr(kept[i].url)>>,
            <<KeyTitle, JStr(IF kept[i].title # <<>> THEN kept[i].title
                             ELSE kept[i].url)>>,
            <<KeyActive, JBool(kept[i].active)>>,
            <<KeyWindowId, JNum(kept[i].windowId)>>>>)]

\* 'Authorization': `Bearer ${authToken}`
ExtensionBearer(token) ==
  Hdr(<<"Bearer", " ">> \o (IF token = "" THEN <<>> ELSE <<token>>))
TokenRequest ==
  [method |-> "GET", url |-> "/token", origin |-> OriginOfExtension,
   auth |-> NoHeader]
TabsPost(token) ==
  [method |-> "POST", url |-> "/tabs", origin |-> OriginOfExtension,
   auth |-> ExtensionBearer(token)]

\* a syncTabs call: pc is where it stands, data what tabs.query gave it,
\* sent the token of the POST it has built, posts the POSTs it has sent,
\* statuses the answers to them, started the token the relay had when the
\* call began
NewSync(token, relayToken) ==
  [pc |-> IF token = "" THEN "fetch" ELSE "query", data |-> <<>>,
   sent |-> "", posts |-> 0, statuses |-> <<>>, c |-> 0,
   started |-> relayToken]

\* syncTabs() is called: by the start of the service worker or by the timer
SyncStart ==
  /\ Len(syncs) < MaxSyncs
  /\ syncs' = Append(syncs, NewSync(extToken, authToken))
  /\ UNCHANGED <<extToken, relayVars>>

\* the relay answers GET /token and fetchToken() stores the text; its caller
\* goes on: to tabs.query before the first POST, to the retry after a 401
AfterFetch(res, token) == IF res.status = 200 THEN res.body[1] ELSE token
SyncFetch(s) ==
  /\ s \in DOMAIN syncs
  /\ syncs[s].pc = "fetch"
  /\ LET res == Route(TokenRequest, authToken, latestTabs)
         token == AfterFetch(res, extToken)
     IN /\ extToken' = token
        /\ syncs' = [syncs EXCEPT ![s] =
             IF token = "" THEN [@ EXCEPT !.pc = "ended"]
             ELSE IF @.posts = 0 THEN [@ EXCEPT !.pc = "query"]
             ELSE [@ EXCEPT !.pc = "post", !.sent = token]]
  /\ UNCHANGED relayVars

\* chrome.tabs.query({}) resolves: the body and the headers of the POST are
\* built
SyncQuery(s, tabs) ==
  /\ s \in DOMAIN syncs
  /\ syncs[s].pc = "query"
  /\ syncs' = [syncs EXCEPT ![s] =
       [@ EXCEPT !.pc = "post", !.data = ExtensionData(tabs),
                 !.sent = extToken]]
  /\ UNCHANGED <<extToken, relayVars>>

\* the POST reaches the relay on connection c: it is answered 401 at once, or
\* its body is awaited
SyncPost(s, c) ==
  /\ s \in DOMAIN syncs
  /\ syncs[s].pc = "post"
  /\ Request(c, TabsPost(syncs[s].sent),
             {Utf8(JsonStringify(JArr(syncs[s].data)))})
  /\ LET status == Route(TabsPost(syncs[s].sent), authToken, latestTabs).status
     IN syncs' = [syncs EXCEPT ![s] =
          IF status = 0
          THEN [@ EXCEPT !.pc = "wait", !.posts = @ + 1, !.c = c]
          ELSE [@ EXCEPT !.pc = "answered", !.posts = @ + 1,
                         !.statuses = Append(@, status)]]
  /\ UNCHANGED extToken

\* if (res.status === 401) { authToken = ''; await fetchToken(); ... } after
\* the first POST; the answer to the retry is not looked at
Retries(sync) == sync.posts = 1 /\ sync.statuses[Len(sync.statuses)] = 401
SyncAnswered(s) ==
  /\ s \in DOMAIN syncs
  /\ syncs[s].pc = "answered"
  /\ IF Retries(syncs[s])
     THEN /\ extToken' = ""
          /\ syncs' = [syncs EXCEPT ![s].pc = "fetch"]
     ELSE /\ extToken' = extToken
          /\ syncs' = [syncs EXCEPT ![s].pc = "ended"]
  /\ UNCHANGED relayVars

\* the relay has answered the body of a POST
SyncResponse(s) ==
  /\ s \in DOMAIN syncs
  /\ syncs[s].pc = "wait"
  /\ conns[syncs[s].c].st \in {"done", "destroyed"}
  /\ syncs' = [syncs EXCEPT ![s] =
       [@ EXCEPT !.pc = "answered", !.c = 0,
                 !.statuses = Append(@, conns[syncs[s].c].sent[1])]]
  /\ Close(syncs[s].c)
  /\ UNCHANGED extToken

\* the application is restarted: a new token, no tabs, and the requests in
\* flight fail, which syncTabs catches
Restart ==
  /\ Epoch(authToken) <= MaxRestarts
  /\ authToken' = Tokens[Epoch(authToken) + 1]
  /\ latestTabs' = <<>>
  /\ pushed' = FALSE
  /\ lastAccepted' = <<>>
  /\ conns' = [c \in DOMAIN conns |-> IdleConn]
  /\ ev' = [kind |-> "restart"]
  /\ syncs' = [s \in DOMAIN syncs |->
       IF syncs[s].pc = "wait"
       THEN [syncs[s] EXCEPT !.pc = "ended", !.c = 0,
                             !.statuses = Append(@, 0)]
       ELSE syncs[s]]
  /\ UNCHANGED extToken

\* where the next chunk of the body on connection c may end: with the body,
\* or within a two-byte character
ChunkEnds(c) ==
  IF conns[c].st # "recv" THEN {}
  ELSE {Len(conns[c].bytes) - conns[c].pos} \cup
       {k \in 1..(Len(conns[c].bytes) - conns[c].pos) :
          conns[c].bytes[conns[c].pos + k] = "C3"}

\* what the browser has open
OpenTabs ==
  { <<ChromeTab(UrlA, <<"A">>, TRUE, 1)>>,
    <<ChromeTab(UrlE, <<>>, TRUE, 1),
      ChromeTab(<<"chrome", ":", "/", "/", "newtab">>, <<"N">>, FALSE, 1)>> }
ExtensionIdle == extToken = "" /\ syncs = <<>>

vars ==
  <<latestTabs, authToken, conns, ev, pushed, lastAccepted, isMac, sessFiles,
    hmacFiles, indexFile, keyFile, keyWritable, keysMade, idsMade, saving,
    scratch, hist, isCapturing, pendingSession, captures, ctx, extToken,
    syncs>>
\* what the store's operations leave alone
\* the relay's variables but ev
relayRest == <<latestTabs, authToken, conns, pushed, lastAccepted>>
\* what the relay, the tab collector and the store leave alone
flowVars ==
  <<scratch, hist, isCapturing, pendingSession, captures, ctx, extToken, syncs>>
FlowIdle == HistoryIdle /\ CaptureIdle /\ ContextIdle /\ ExtensionIdle
restVars ==
  <<latestTabs, authToken, conns, pushed, lastAccepted, isMac, flowVars>>


\* the collector beside a relay that a well-behaved extension pushes to, each
\* body arriving in one piece
TabsInit == RelayInit /\ isMac \in BOOLEAN /\ StoreIdle /\ FlowIdle
ServerInit == RelayInit /\ isMac = FALSE /\ StoreIdle /\ FlowIdle
TabsNext ==
  \/ \E req \in PlainRequests : Request(1, req, AllBodies) /\ UNCHANGED <<isMac, storeVars, flowVars>>
  \/ PostData(1, Len(conns[1].bytes)) /\ UNCHANGED <<isMac, storeVars, flowVars>>
  \/ PostEnd(1) /\ UNCHANGED <<isMac, storeVars, flowVars>>
  \/ Close(1) /\ UNCHANGED <<isMac, storeVars, flowVars>>
  \/ \E cdp \in CdpResults, fb \in FallbackResults : Collect(cdp, fb) /\ UNCHANGED <<storeVars, flowVars>>

Spec == TabsInit /\ [][TabsNext]_vars

\* captureContext over working, failing and garbling tools
contextRest ==
  <<relayRest, isMac, storeVars, scratch, hist, isCapturing, pendingSession,
    captures, extVars>>
ContextNext ==
  \/ \E opts \in Options : ContextBegin(opts) /\ UNCHANGED contextRest
  \/ \E tool \in WindowTools : WindowsSettle(tool) /\ UNCHANGED contextRest
  \/ \E dir \in RecentDirs :
       \E tool \in (IF isMac THEN RecentToolsMac ELSE RecentToolsWin) :
         RecentFilesSettle(dir, tool) /\ UNCHANGED contextRest
  \/ \E cdp \in ContextCdpPorts :
       \E fallback \in (IF isMac THEN ContextAppleTools ELSE ContextUiaTools) :
         BrowserTabsSettle(cdp, fallback) /\ UNCHANGED contextRest
  \/ \E profiles \in ContextProfiles, sqlLoads \in BOOLEAN :
       BrowserHistorySettle(profiles, sqlLoads) /\ UNCHANGED contextRest
  \/ \E clip \in Clipboards : ContextEnd(clip) /\ UNCHANGED contextRest
SpecContext == TabsInit /\ [][ContextNext]_vars

\* the relay's routing, with every kind of header
AuthNext ==
  \/ \E req \in Requests : Request(1, req, AuthBodies) /\ UNCHANGED <<isMac, storeVars, flowVars>>
  \/ PostData(1, Len(conns[1].bytes)) /\ UNCHANGED <<isMac, storeVars, flowVars>>
  \/ PostEnd(1) /\ UNCHANGED <<isMac, storeVars, flowVars>>
  \/ Close(1) /\ UNCHANGED <<isMac, storeVars, flowVars>>

SpecAuth == ServerInit /\ [][AuthNext]_vars

\* the relay's connections: bodies arrive in chunks, requests interleave
WireNext ==
  \/ \E c \in Conns, req \in PlainRequests :
       Request(c, req, SmallBodies) /\ UNCHANGED <<isMac, storeVars, flowVars>>
  \/ \E c \in Conns, k \in 1..MaxChunkLen : PostData(c, k) /\ UNCHANGED <<isMac, storeVars, flowVars>>
  \/ \E c \in Conns : PostEnd(c) /\ UNCHANGED <<isMac, storeVars, flowVars>>
  \/ \E c \in Conns : ClientAbort(c) /\ UNCHANGED <<isMac, storeVars, flowVars>>
  \/ \E c \in Conns : Close(c) /\ UNCHANGED <<isMac, storeVars, flowVars>>
  \/ Collect(<<>>, <<>>) /\ UNCHANGED <<storeVars, flowVars>>

SpecWire == ServerInit /\ [][WireNext]_vars

\* the relay's body limit: POSTs only, bodies at and over the limit
LimitNext ==
  \/ \E c \in Conns, req \in PostRequests :
       Request(c, req, LimitBodies) /\ UNCHANGED <<isMac, storeVars, flowVars>>
  \/ \E c \in Conns, k \in 1..MaxChunkLen :
       PostData(c, k) /\ UNCHANGED <<isMac, storeVars, flowVars>>
  \/ \E c \in Conns : PostEnd(c) /\ UNCHANGED <<isMac, storeVars, flowVars>>
  \/ \E c \in Conns : ClientAbort(c) /\ UNCHANGED <<isMac, storeVars, flowVars>>
  \/ \E c \in Conns : Close(c) /\ UNCHANGED <<isMac, storeVars, flowVars>>

SpecLimit == ServerInit /\ [][LimitNext]_vars

\* the relay receiving well-formed and malformed bodies, each in one piece
MalformedNext ==
  \/ \E req \in AllowedRequests :
       Request(1, req, ArrayBodies \cup MalformedBodies)
       /\ UNCHANGED <<isMac, storeVars, flowVars>>
  \/ PostData(1, Len(conns[1].bytes)) /\ UNCHANGED <<isMac, storeVars, flowVars>>
  \/ PostEnd(1) /\ UNCHANGED <<isMac, storeVars, flowVars>>
  \/ Close(1) /\ UNCHANGED <<isMac, storeVars, flowVars>>

SpecMalformed == ServerInit /\ [][MalformedNext]_vars

\* the extension syncing to a relay that is restarted, bodies arriving in
\* chunks
syncRest ==
  <<isMac, storeVars, scratch, hist, isCapturing, pendingSession, captures,
    ctx>>
SyncNext ==
  \/ SyncStart /\ UNCHANGED syncRest
  \/ \E s \in 1..MaxSyncs : SyncFetch(s) /\ UNCHANGED syncRest
  \/ \E s \in 1..MaxSyncs, tabs \in OpenTabs :
       SyncQuery(s, tabs) /\ UNCHANGED syncRest
  \/ \E s \in 1..MaxSyncs, c \in Conns : SyncPost(s, c) /\ UNCHANGED syncRest
  \/ \E s \in 1..MaxSyncs : SyncAnswered(s) /\ UNCHANGED syncRest
  \/ \E s \in 1..MaxSyncs : SyncResponse(s) /\ UNCHANGED syncRest
  \/ \E c \in Conns :
       \E k \in ChunkEnds(c) : PostData(c, k) /\ UNCHANGED <<syncRest, extVars>>
  \/ \E c \in Conns : PostEnd(c) /\ UNCHANGED <<syncRest, extVars>>
  \/ Restart /\ UNCHANGED syncRest

SpecSync == ServerInit /\ [][SyncNext]_vars

\* a data directory holding one stored session, signed by nobody
RestoreInit ==
  /\ RelayInit
  /\ isMac \in BOOLEAN
  /\ \E f \in {NoFile} \cup
               {Written(JsonStringifyIndent(x, 0)) : x \in RestoreSessions} :
       sessFiles = [id \in StoreIds |-> IF id = IdOld THEN f ELSE NoFile]
  /\ hmacFiles = [id \in StoreIds |-> NoFile]
  /\ indexFile = NoFile
  /\ keyFile = NoFile
  /\ keyWritable = TRUE
  /\ keysMade = 0
  /\ idsMade = 0
  /\ saving = NotSaving
  /\ FlowIdle

SessionsInit == RelayInit /\ isMac = FALSE /\ StoreInit /\ FlowIdle

\* saveSession alone: saves that a crash may cut short
SavesNext ==
  \/ \E x \in Snapshots :
       SaveSessionBegin(x, Instant(idsMade + 1)) /\ UNCHANGED restVars
  \/ WriteSessionFile /\ UNCHANGED restVars
  \/ WriteHmacFile /\ UNCHANGED restVars
  \/ WriteIndexFile /\ UNCHANGED restVars
  \/ \E torn \in BOOLEAN : Crash(torn) /\ UNCHANGED restVars

SpecSave == SessionsInit /\ [][SavesNext]_vars

\* the session store: saves that a crash may cut short, and loads
SessionsNext ==
  \/ \E x \in Snapshots :
       SaveSessionBegin(x, Instant(idsMade + 1)) /\ UNCHANGED restVars
  \/ WriteSessionFile /\ UNCHANGED restVars
  \/ WriteHmacFile /\ UNCHANGED restVars
  \/ WriteIndexFile /\ UNCHANGED restVars
  \/ \E torn \in BOOLEAN : Crash(torn) /\ UNCHANGED restVars
  \/ \E id \in StoreIds : Load(id) /\ UNCHANGED restVars

SpecStore == SessionsInit /\ [][SessionsNext]_vars

\* the session files in other hands: the files of the first save, which
\* someone rewrites or strips of their signature, and loads
Exposed == {Id(1)}
UnsignedNext ==
  \/ SaveSessionBegin(SnapFull, Instant(idsMade + 1)) /\ UNCHANGED restVars
  \/ WriteSessionFile /\ UNCHANGED restVars
  \/ WriteHmacFile /\ UNCHANGED restVars
  \/ WriteIndexFile /\ UNCHANGED restVars
  \/ \E id \in Exposed : Tamper(id) /\ UNCHANGED restVars
  \/ \E id \in Exposed : RemoveHmac(id) /\ UNCHANGED restVars
  \/ \E id \in StoreIds : Load(id) /\ UNCHANGED restVars

SpecUnsigned == SessionsInit /\ [][UnsignedNext]_vars

\* the same files, rewritten or deleted, and the list of all sessions
ListNext ==
  \/ SaveSessionBegin(SnapFull, Instant(idsMade + 1)) /\ UNCHANGED restVars
  \/ WriteSessionFile /\ UNCHANGED restVars
  \/ WriteHmacFile /\ UNCHANGED restVars
  \/ WriteIndexFile /\ UNCHANGED restVars
  \/ \E id \in Exposed : Tamper(id) /\ UNCHANGED restVars
  \/ \E id \in Exposed : RemoveSession(id) /\ UNCHANGED restVars
  \/ LoadAll /\ UNCHANGED restVars

SpecList == SessionsInit /\ [][ListNext]_vars

\* saved sessions that someone rewrites
TamperNext ==
  \/ \E x \in Snapshots :
       SaveSessionBegin(x, Instant(idsMade + 1)) /\ UNCHANGED restVars
  \/ WriteSessionFile /\ UNCHANGED restVars
  \/ WriteHmacFile /\ UNCHANGED restVars
  \/ WriteIndexFile /\ UNCHANGED restVars
  \/ \E id \in StoreIds : Tamper(id) /\ UNCHANGED restVars

SpecTamper == SessionsInit /\ [][TamperNext]_vars

\* retention: saves, and prunes at several instants
PruneAges == {0, 90}
PruneNows == {190, 191, 371, 372}
PruneNext ==
  \/ \E x \in Snapshots :
       SaveSessionBegin(x, Instant(idsMade + 1)) /\ UNCHANGED restVars
  \/ WriteSessionFile /\ UNCHANGED restVars
  \/ WriteHmacFile /\ UNCHANGED restVars
  \/ WriteIndexFile /\ UNCHANGED restVars
  \/ \E maxAgeDays \in PruneAges, now \in PruneNows :
       Prune(maxAgeDays, now) /\ UNCHANGED restVars

SpecPrune == SessionsInit /\ [][PruneNext]_vars

\* saves and prunes in a data directory that starts empty
EmptyStoreInit ==
  /\ RelayInit
  /\ isMac = FALSE
  /\ sessFiles = [id \in StoreIds |-> NoFile]
  /\ hmacFiles = [id \in StoreIds |-> NoFile]
  /\ indexFile = NoFile
  /\ keyFile = NoFile
  /\ keyWritable \in BOOLEAN
  /\ keysMade = 0
  /\ idsMade = 0
  /\ saving = NotSaving
  /\ FlowIdle
SpecEmptyStore == EmptyStoreInit /\ [][PruneNext]_vars

\* restorations of a stored session
RestoreNext ==
  \E defaultBrowser \in DefaultBrowsers, env \in Envs :
    Restore(IdOld, defaultBrowser, env) /\ UNCHANGED restVars

SpecRestore == RestoreInit /\ [][RestoreNext]_vars

\* the history reader over the profiles found on disk
Ticks == {"1", "2"}
HistoryInit == RelayInit /\ isMac = FALSE /\ StoreIdle /\ FlowIdle
HistoryNext ==
  \/ \E profiles \in ProfileLists, sqlLoads \in BOOLEAN :
       HistoryBegin(profiles, sqlLoads, HistNow, 60)
       /\ UNCHANGED <<relayRest, isMac, storeVars, captureVars, ctx, extVars>>
  \/ \E ms \in Ticks :
       HistoryProfile(ms) /\ UNCHANGED <<relayRest, isMac, storeVars, captureVars, ctx, extVars>>
  \/ HistoryEnd /\ UNCHANGED <<relayRest, isMac, storeVars, captureVars, ctx, extVars>>

SpecHistory == HistoryInit /\ [][HistoryNext]_vars

\* the capture flow: triggers, collections and AI calls that settle in any
\* order, approvals and skips
CaptureInit ==
  /\ RelayInit
  /\ isMac = FALSE
  /\ StoreIdle
  /\ FlowIdle
histVars == <<scratch, hist, ctx, extToken, syncs>>
CaptureNext ==
  \/ \E configured \in BOOLEAN :
       Trigger(configured) /\ UNCHANGED <<relayRest, isMac, storeVars, histVars>>
  \/ \E k \in 1..MaxCaptures, rejected \in BOOLEAN :
       CollectionEnds(k, rejected)
       /\ UNCHANGED <<relayRest, isMac, storeVars, histVars>>
  \/ \E k \in 1..MaxCaptures, provider \in AiProviders :
       \E call \in ProviderCalls(Context(k)) :
         SummaryEnds(k, provider, call)
         /\ UNCHANGED <<relayRest, isMac, storeVars, histVars>>
  \/ \E userNote \in UserNotes :
       ApproveSession(userNote) /\ UNCHANGED <<relayRest, isMac, histVars>>
  \/ SkipSession /\ UNCHANGED <<relayRest, isMac, storeVars, histVars>>

SpecCapture == CaptureInit /\ [][CaptureNext]_vars

(* ================================================================== *)
(* Claims                                                              *)
(* ================================================================== *)
Collected == ev.kind = "collect"

IsChromeCopy(tab, t) ==
  /\ tab.url = GetProp(t, KeyUrl)
  /\ tab.title = GetProp(t, KeyTitle)
  /\ tab.browser = JStr(<<"chrome">>)

Min(a, b) == IF a < b THEN a ELSE b

\* C1 as claimed: whenever some POST /tabs has been accepted since startup,
\* collectBrowserTabs returns the relay's latest snapshot, entry by entry as
\* {url, title, browser: 'chrome'}, and asks neither other source.
C1_AnyPushWins ==
  (Collected /\ ev.pushed) =>
    /\ ~ev.queried
    /\ Len(ev.result) = Len(ev.relay)
    /\ \A i \in DOMAIN ev.result : IsChromeCopy(ev.result[i], ev.relay[i])

\* C1 as amended: whenever the relay's latest snapshot holds at least one tab,
\* collectBrowserTabs returns its first 30 entries, entry by entry as {url,
\* title, browser: 'chrome'}, and asks neither other source; when the latest
\* accepted array is empty the other sources are asked.
C1_NonEmptyRelayWins ==
  Collected =>
    /\ Len(ev.relay) > 0 =>
         /\ ~ev.queried
         /\ Len(ev.result) = Min(Len(ev.relay), TAB_CAP)
         /\ \A i \in DOMAIN ev.result : IsChromeCopy(ev.result[i], ev.relay[i])
    /\ Len(ev.relay) = 0 => ev.queried

\* a collection that found more than 30 tabs in the relay
C1_Witness == Collected /\ ev.pushed /\ Len(ev.relay) > TAB_CAP /\ ~ev.queried

\* C2: with nothing in the relay, a non-empty debug-protocol result is the only
\* source of the returned tabs: every returned tab is one of cdpTabs, every url
\* of cdpTabs is returned while the cap allows, and a tab that only the
\* UI-automation/AppleScript source has is returned only when cdpTabs is empty.
C2_CdpWins ==
  (Collected /\ ev.queried) =>
    /\ Len(ev.cdp) > 0 =>
         /\ \A i \in DOMAIN ev.result : ev.result[i] \in Range(ev.cdp)
         /\ ev.result # <<>>
         /\ ev.result[1] = ev.cdp[1]
         /\ Len(ev.result) < TAB_CAP =>
              \A j \in DOMAIN ev.cdp :
                \E i \in DOMAIN ev.result : ev.result[i].url = ev.cdp[j].url
    /\ (\E i \in DOMAIN ev.result : ev.result[i] \notin Range(ev.cdp)) =>
         (ev.cdp = <<>> /\ \A i \in DOMAIN ev.result : ev.result[i] \in Range(ev.fallback))

\* both sources answered, and the fallback knows a tab the debug protocol
\* does not
C2_Witness ==
  /\ Collected /\ ev.queried
  /\ Len(ev.cdp) = 2
  /\ \E i \in DOMAIN ev.fallback : ev.fallback[i] \notin Range(ev.cdp)

\* C3 as claimed: whatever source produced it, the list collectBrowserTabs
\* returns has no two tabs with the same url and at most 30 entries.
C3_UniqueAndCapped ==
  Collected =>
    /\ Len(ev.result) <= TAB_CAP
    /\ \A i, j \in DOMAIN ev.result :
         ev.result[i].url = ev.result[j].url => i = j

Responded == ev.kind = "resp"
TabsRoute == Responded /\ ev.req.url = "/tabs" /\ ev.req.method \in {"GET", "POST"}

\* the words of an Authorization header are 'Bearer' and the token, in a
\* header that is there
BearerWords(h, token) ==
  /\ h.present
  /\ Len(h.v) >= 3
  /\ SubSeq(h.v, 1, 3) = <<"Bearer", " ", token>>
  /\ Len(h.v) > 3 => h.v[4] = " "

ExtensionOrigin(h) ==
  /\ h.present
  /\ Len(h.v) >= 4
  /\ h.v[1] \in {"chrome-extension", "moz-extension", "extension"}
  /\ SubSeq(h.v, 2, 4) = <<":", "/", "/">>

Rejected401 == ev.status = 401 /\ ev.body = <<"Unauthorized">>

\* a step in which some POST /tabs reaches its end handler
SomePostEnds == \E c \in Conns : conns[c].st = "recv" /\ conns'[c].st = "done"

\* C5 as claimed: a POST /tabs or GET /tabs whose Authorization header is
\* missing or is not exactly 'Bearer <current token>' is answered 401 and is
\* given none of the stored tabs.
C5_NotExactlyBearerIs401 ==
  (TabsRoute /\ ev.req.auth # Bearer(authToken)) => Rejected401

\* C5 as amended: a POST /tabs or GET /tabs that passes the origin check and
\* whose Authorization header is missing, empty, or does not begin with the
\* word 'Bearer', one space and the current token (followed by nothing or by a
\* space) is answered 401 with the body 'Unauthorized'; no body of such a POST
\* is received; and latestTabs changes only when an accepted POST ends.
C5_UnauthorizedIs401 ==
  /\ [](/\ (/\ TabsRoute
            /\ (~ev.req.origin.present \/ ev.req.origin.v = <<>> \/ ExtensionOrigin(ev.req.origin))
            /\ ~BearerWords(ev.req.auth, authToken)) => Rejected401
        /\ \A c \in Conns :
             conns[c].st # "idle" => BearerWords(conns[c].req.auth, authToken))
  /\ [][latestTabs' # latestTabs => SomePostEnds]_vars

\* a GET /tabs with a wrong token is refused while tabs are stored
C5_Witness ==
  /\ TabsRoute /\ ev.req.method = "GET" /\ ev.req.auth = Bearer("tok0")
  /\ ev.status = 401 /\ latestTabs # <<>>

\* C6 as claimed: every request carrying an Origin header that is not a
\* chrome-extension://, moz-extension:// or extension:// URI is answered 403.
C6_ForeignOriginIs403 ==
  (Responded /\ ev.req.origin.present /\ ~ExtensionOrigin(ev.req.origin)) =>
    ev.status = 403

\* C6 as amended: every request carrying a non-empty Origin header that is not
\* a chrome-extension://, moz-extension:// or extension:// URI is answered 403
\* with the body 'Forbidden', on every route and whatever its Authorization
\* header; no body of such a request is received; and latestTabs changes only
\* when an accepted POST ends.
C6_NonEmptyForeignOriginIs403 ==
  /\ [](/\ (/\ Responded /\ ev.req.origin.present /\ ev.req.origin.v # <<>>
            /\ ~ExtensionOrigin(ev.req.origin)) =>
             (ev.status = 403 /\ ev.body = <<"Forbidden">>)
        /\ \A c \in Conns :
             conns[c].st # "idle" =>
               (~conns[c].req.origin.present \/ conns[c].req.origin.v = <<>>
                  \/ ExtensionOrigin(conns[c].req.origin)))
  /\ [][latestTabs' # latestTabs => SomePostEnds]_vars

\* a web page that holds the token asks for it again while tabs are stored
C6_Witness ==
  /\ Responded /\ ev.req.url = "/token"
  /\ ev.req.origin = Hdr(<<"http", ":", "/", "/", "evil">>)
  /\ ev.req.auth = Bearer(authToken)
  /\ ev.status = 403 /\ latestTabs # <<>>

\* C7 as claimed: what a reader of latestTabs sees is the initial empty array
\* or the complete filtered array, as sent, of the most recently completed
\* accepted POST.
C7_ReadsSeeWhatWasSent ==
  /\ latestTabs = lastAccepted
  /\ Collected => ev.relay \in {<<>>} \cup { Ingest(BufferToString(b)).tabs :
                     b \in {x \in SmallBodies \cup AllBodies : Ingest(BufferToString(x)).assign} }

\* the number of bytes of a byte sequence
RawLength(bytes) == SumRange([i \in DOMAIN bytes |-> UnitBytes(bytes[i])], 1, Len(bytes))

Received(c) == SubSeq(conns[c].bytes, 1, conns[c].pos)

\* C8: a POST /tabs of which more than 1 MiB has been received has been
\* answered 413, once and with nothing else, and its connection is destroyed;
\* the step that crosses the limit leaves latestTabs as it was, and a destroyed
\* connection takes no further step than its close.
C8_OversizeIs413 ==
  /\ [](\A c \in Conns :
          /\ (conns[c].st # "idle" /\ RawLength(Received(c)) > MAX_BODY_BYTES) =>
               (conns[c].st = "destroyed" /\ conns[c].sent = <<413>>)
          /\ conns[c].st = "destroyed" => conns[c].sent = <<413>>)
  /\ [][\A c \in Conns :
          /\ (conns[c].st = "recv" /\ conns'[c].st = "destroyed") =>
               latestTabs' = latestTabs
          /\ conns[c].st = "destroyed" =>
               (conns'[c] = conns[c] \/ (conns'[c] = IdleConn /\ latestTabs' = latestTabs))]_vars

\* the limit was crossed by a later chunk, after part of the body had been kept
C8_Witness ==
  \E c \in Conns :
    /\ conns[c].st = "destroyed" /\ conns[c].body # <<>>
    /\ latestTabs # <<>>

IsHttpUrl(u) == u.t = "str" /\ HttpRegex(u.v)
Loaded == ev.kind = "load" /\ ev.result.t = "obj"

\* C4: every tab a producer yields has a url that begins with http:// or
\* https://: the tabs the relay holds, the tabs a collection returns, and the
\* tabs of a session that loadSession returns, synthesised from a legacy
\* browserUrls list included.
C4_TabsAreHttp ==
  /\ \A i \in DOMAIN latestTabs : IsHttpUrl(GetProp(latestTabs[i], KeyUrl))
  /\ Collected => \A i \in DOMAIN ev.result : IsHttpUrl(ev.result[i].url)
  /\ Loaded =>
       LET tabs == GetProp(ev.result, KeyBrowserTabs) IN
       tabs.t = "arr" /\ \A i \in DOMAIN tabs.v :
         IsHttpUrl(GetProp(tabs.v[i], KeyUrl))

\* the ids index.json lists
IndexIds(f) ==
  LET index == readIndex(f) IN
  IF index.t # "arr" THEN {}
  ELSE { GetProp(index.v[i], KeyId).v :
           i \in { j \in DOMAIN index.v : GetProp(index.v[j], KeyId).t = "str" } }

\* C9: in every step of saveSession, a crash included, an id that the step
\* adds to index.json has its session file, and its signature file; a
\* signature file the step creates has its session file beside it. The
\* writes are made in the order session file, signature file, index file.
C9_IndexWrittenLast ==
  [][saving.active =>
       \A id \in StoreIds :
         /\ (id \in IndexIds(indexFile') /\ id \notin IndexIds(indexFile))
              => sessFiles'[id].exists /\ hmacFiles'[id].exists
         /\ (hmacFiles'[id].exists /\ ~hmacFiles[id].exists)
              => sessFiles'[id].exists]_vars

\* a crash that left the session and signature files of a save whose id the
\* index does not list, and a save that went through
C9_Witness ==
  /\ ev.kind = "saved"
  /\ GetProp(ev.session, KeyId).v \in IndexIds(indexFile)
  /\ \E id \in StoreIds \ {IdOld} :
       /\ hmacFiles[id].exists
       /\ sessFiles[id].exists
       /\ id \notin IndexIds(indexFile)

SnapshotKeys ==
  {KeyWindows, KeyClipboard, KeyRecentFiles, KeyBrowserTabs, KeyBrowserHistory,
   KeyAiSummary, KeyUserNote, KeyApproved}

\* what loadSession(id) would return in this state
LoadNow(id) ==
  loadSession(id, sessFiles, hmacFiles, keyFile, keyWritable, keysMade).result

\* C10: right after saveSession(x) returns a session, loadSession of its id
\* returns a session with x's eight fields and the id and capturedAt that
\* saveSession returned, whatever the state of the key file was.
C10_LoadReturnsSaved ==
  ev.kind = "saved" =>
    LET r == LoadNow(GetProp(ev.session, KeyId).v) IN
    /\ r.t = "obj"
    /\ \A k \in SnapshotKeys : GetProp(r, k) = GetProp(ev.x, k)
    /\ \A k \in {KeyId, KeyCapturedAt} : GetProp(r, k) = GetProp(ev.session, k)

\* the same where the key file exists or can be created
StoreRoundTripWithKey ==
  (ev.kind = "saved" /\ (keyWritable \/ keyFile.exists)) =>
    LET r == LoadNow(GetProp(ev.session, KeyId).v) IN
    /\ r.t = "obj"
    /\ \A k \in SnapshotKeys : GetProp(r, k) = GetProp(ev.x, k)
    /\ \A k \in {KeyId, KeyCapturedAt} : GetProp(r, k) = GetProp(ev.session, k)

\* the ids index.json lists, in its order
IndexIdSeq(f) ==
  LET index == readIndex(f)
      entries == SelectSeq(index.v, LAMBDA e : GetProp(e, KeyId).t = "str")
  IN [i \in DOMAIN entries |-> GetProp(entries[i], KeyId).v]

\* what loadSession(id) and loadAllSessions() would return after this step
LoadAfter(id) ==
  loadSession(id, sessFiles', hmacFiles', keyFile', keyWritable', keysMade').result
LoadAllAfter ==
  loadAllSessions(indexFile', sessFiles', hmacFiles', keyFile', keyWritable',
                  keysMade')

\* C11: once the bytes of a session file that saveSession wrote are changed
\* in any way, its signature file left in place, loadSession of its id
\* returns null and loadAllSessions returns no session of that id.
C11_AnyChangeIsRejected ==
  [][ev'.kind = "tampered" =>
       /\ LoadAfter(ev'.id) = JNull
       /\ \A i \in DOMAIN LoadAllAfter.sessions :
            GetProp(LoadAllAfter.sessions[i], KeyId) # JStr(ev'.id)]_vars

\* the same for the changes that change the text the bytes decode to
TamperedTextIsRejected ==
  [][(ev'.kind = "tampered"
       /\ ReadFile(sessFiles'[ev'.id]) # BufferToString(ev'.was)) =>
       /\ LoadAfter(ev'.id) = JNull
       /\ \A i \in DOMAIN LoadAllAfter.sessions :
            GetProp(LoadAllAfter.sessions[i], KeyId) # JStr(ev'.id)]_vars

\* a session file as StoredSession types it: an object whose browserTabs and
\* browserUrls, where it has them, are arrays
WellFormed(parsed) ==
  /\ parsed.ok
  /\ parsed.val.t = "obj"
  /\ \A k \in {KeyBrowserTabs, KeyBrowserUrls} :
       GetProp(parsed.val, k).t \in {"undef", "arr"}

\* the session of a file: every member of the file, and browserTabs and
\* browserHistory filled in where the file has none
IsSessionOf(result, parsed) ==
  /\ result.t = "obj"
  /\ \A i \in DOMAIN parsed.val.v :
       GetProp(result, parsed.val.v[i][1]) = parsed.val.v[i][2]
  /\ \A k \in {KeyBrowserTabs, KeyBrowserHistory} : GetProp(result, k).t = "arr"

UnsignedFile(id, parsed) ==
  sessFiles[id].exists /\ ~hmacFiles[id].exists /\ WellFormed(parsed)

\* C12: loadSession of a well-formed session file that has no signature
\* file returns the session, whatever the file holds, and the call makes no
\* signing key.
C12_UnsignedLoads ==
  ev.kind = "load" =>
    LET parsed == JsonParse(ReadFile(sessFiles[ev.id])) IN
    UnsignedFile(ev.id, parsed) =>
      IsSessionOf(ev.result, parsed) /\ ev.keysMade = 0

\* loads of unsigned files: a legacy session, and a saved session whose
\* text was changed and whose signature file was deleted
C12_Witness ==
  /\ ev.kind = "load" /\ ev.result.t = "obj"
  /\ ~hmacFiles[ev.id].exists
  /\ ev.id # IdOld
  /\ GetProp(ev.result, KeyAiSummary) = JStr(<<"X">>)

\* C13: loadAllSessions returns, in the order of the index, the sessions
\* that loadSession returns for the entries of the index, leaving out the
\* entries for which loadSession returns null; it does not throw.
C13_LoadAllFollowsIndex ==
  ev.kind = "loadAll" =>
    /\ ev.ok
    /\ LET ids == SelectSeq(IndexIdSeq(indexFile),
                            LAMBDA id : id \in StoreIds /\ LoadNow(id) # JNull)
       IN ev.sessions = [i \in DOMAIN ids |-> LoadNow(ids[i])]

\* an index of three entries, of which loadAllSessions returns the first
\* and the last
C13_Witness ==
  /\ ev.kind = "loadAll"
  /\ Len(IndexIdSeq(indexFile)) = 3
  /\ Len(ev.sessions) = 2
  /\ GetProp(ev.sessions[1], KeyId) = JStr(IndexIdSeq(indexFile)[1])
  /\ GetProp(ev.sessions[2], KeyId) = JStr(IndexIdSeq(indexFile)[3])

\* whether an index entry was captured before the cutoff of the last prune
Expired(e) ==
  LET ts == GetTime(GetProp(e, KeyCapturedAt)) IN
  ~ts.nan /\ ts.t + ev.maxAgeDays < ev.now

PruneDone(before, after) ==
  /\ after = SelectSeq(before, LAMBDA e : ~Expired(e))
  /\ ev.removed = Len(before) - Len(after)
  /\ \A id \in StoreIds :
       IF \E i \in DOMAIN before : Expired(before[i]) /\ EntryId(before[i]) = JStr(id)
       THEN ~sessFiles[id].exists /\ ~hmacFiles[id].exists
       ELSE sessFiles[id] = ev.sessFiles[id] /\ hmacFiles[id] = ev.hmacFiles[id]

\* C14: after pruneOldSessions(maxAgeDays), index.json lists the entries it
\* listed before whose capturedAt is not older than now minus maxAgeDays
\* days, in the same order and unchanged; the session and signature files
\* of the entries that went are gone, every other session and signature
\* file is as it was; and the call returns the number of entries that went.
C14_PruneRemovesExpired ==
  ev.kind = "prune" =>
    /\ ev.ok
    /\ PruneDone(readIndex(ev.indexFile).v, readIndex(indexFile).v)
    /\ ev.removed = 0 => indexFile = ev.indexFile

\* a prune that removed the oldest of three sessions and kept the two
\* others, one of them captured exactly maxAgeDays days before
C14_Witness ==
  /\ ev.kind = "prune"
  /\ ev.removed = 1
  /\ ~sessFiles[IdOld].exists /\ ev.sessFiles[IdOld].exists
  /\ Len(readIndex(indexFile).v) = 2
  /\ \E i \in DOMAIN readIndex(indexFile).v :
       GetTime(GetProp(readIndex(indexFile).v[i], KeyCapturedAt)).t
         + ev.maxAgeDays = ev.now

Restoring == ev.kind = "restore"
\* the session restored is the one with this summary
RestoringSession(summary) ==
  Restoring /\ GetProp(ev.session, KeyAiSummary) = JStr(summary)

\* C15: every URL passed to shell.openExternal begins with http:// or
\* https://, as does the stored entry it was parsed from; the other
\* entries are not counted, and the session with javascript:alert(1) and
\* https://ok.example gives urlsOpened = 1 where the open succeeds.
C15_OnlyHttpOpened ==
  Restoring =>
    /\ \A i \in DOMAIN ev.result.opened :
         /\ HttpRegex(ev.result.opened[i].href)
         /\ HttpRegex(ToStr(ev.result.opened[i].url))
    /\ ev.result.urlsOpened <= Len(ev.result.opened)
    /\ (RestoringSession(<<"example">>) /\ ev.env.badUrls = {}) =>
         ev.result.urlsOpened = 1

\* the session of the claim restored: one URL opened, https://ok.example/
C15_Witness ==
  /\ RestoringSession(<<"example">>)
  /\ ev.result.urlsOpened = 1
  /\ ev.result.opened = <<[url |-> JStr(UrlOk), href |-> Append(UrlOk, "/")]>>

\* C16 as stated: at most 20 URLs are opened, and no URL is passed to
\* shell.openExternal twice.
C16_NoUrlOpenedTwice ==
  Restoring =>
    /\ Len(ev.result.opened) <= URL_CAP
    /\ ev.result.urlsOpened <= URL_CAP
    /\ \A i, j \in DOMAIN ev.result.opened :
         ev.result.opened[i].href = ev.result.opened[j].href => i = j

\* C16, amended: at most 20 URLs are opened, and no stored URL string is
\* opened twice.
C16_NoStoredUrlOpenedTwice ==
  Restoring =>
    /\ Len(ev.result.opened) <= URL_CAP
    /\ ev.result.urlsOpened <= URL_CAP
    /\ \A i, j \in DOMAIN ev.result.opened :
         ev.result.opened[i].url = ev.result.opened[j].url => i = j

\* a session with 21 URLs of which 20 were opened
C16_Witness ==
  /\ RestoringSession(<<"many">>)
  /\ Len(ev.result.opened) = URL_CAP
  /\ ev.result.urlsOpened = URL_CAP

\* the names of the recorded windows
WindowNames ==
  LET w == GetProp(ev.session, KeyWindows) IN
  IF w.t # "arr" THEN {}
  ELSE { GetProp(w.v[i], KeyName).v : i \in DOMAIN w.v }
ShellChars == {";", "|", "`", "\"", "'"}
PlainChars == {".", "-", " "}
SkippedHere == IF isMac THEN MAC_SKIP \cup BROWSER_PROCESSES ELSE WIN_SKIP
CommandFor(name) ==
  \E i \in DOMAIN ev.result.commands :
    LowerStr(ev.result.commands[i].name) = LowerStr(name)

\* C17: no command is run with a process name that holds ';', '|', a
\* backtick or a quote; a recorded name made of letters, digits, dots,
\* dashes and spaces only, which is not a skipped or a browser process, has
\* its command run, also when a rejected name comes before it.
C17_UnsafeNamesRejected ==
  Restoring =>
    /\ \A i \in DOMAIN ev.result.commands :
         \A k \in DOMAIN ev.result.commands[i].name :
           ev.result.commands[i].name[k] \notin ShellChars
    /\ \A name \in WindowNames :
         (/\ name # <<>>
          /\ \A k \in DOMAIN name :
               name[k] \in PlainChars \/ name[k] \notin Punctuation
          /\ LowerStr(name) \notin SkippedHere \cup BROWSER_PROCESSES)
         => CommandFor(name)

\* a rejected name before an accepted one: Notes had its command
C17_Witness ==
  /\ RestoringSession(<<"apps">>)
  /\ CommandFor(<<"Notes">>)
  /\ ~CommandFor(<<"bad", ";", "rm">>)

\* C18: no command is run for, and no outcome recorded under, the name of
\* a system process or of a browser process, on either platform.
C18_BrowsersAndSystemSkipped ==
  Restoring =>
    /\ \A i \in DOMAIN ev.result.commands :
         LowerStr(ev.result.commands[i].name) \notin
           BROWSER_PROCESSES \cup (IF isMac THEN MAC_SKIP ELSE WIN_SKIP)
    /\ Len(ev.result.launched) <= Len(ev.result.commands)

\* the restore attempts: the commands other than the open -a that follows
\* a failed osascript
Attempts == SelectSeq(ev.result.commands, LAMBDA c : c.tool # "open")

\* C19: each lower-cased process name has at most one restore attempt, and
\* each recorded name that passes the filters has one; open -a is run only
\* after an osascript that failed; where a command brought a running
\* instance to the foreground the outcome recorded is "focused", and where
\* it started the process the outcome recorded is "launched".
C19_OneAttemptAndItsOutcome ==
  Restoring =>
    /\ \A i, j \in DOMAIN Attempts :
         LowerStr(Attempts[i].name) = LowerStr(Attempts[j].name) => i = j
    /\ \A name \in WindowNames :
         (SAFE_PROCESS_NAME(name)
          /\ LowerStr(name) \notin SkippedHere \cup BROWSER_PROCESSES)
         => CommandFor(name)
    /\ \A i \in DOMAIN ev.result.commands :
         LET c == ev.result.commands[i] IN
         /\ c.tool = "open" =>
              i > 1 /\ ev.result.commands[i - 1].effect = NoEffect
         /\ c.effect = Focus =>
              \E k \in DOMAIN ev.result.launched :
                ev.result.launched[k] = Outcome(c.name, <<"focused">>)
         /\ c.effect = Start =>
              \E k \in DOMAIN ev.result.launched :
                ev.result.launched[k] = Outcome(c.name, <<"launched">>)

\* C20: restore-session returns, with success = false exactly where
\* loadSession returned null, whatever steps fail.
C20_AlwaysReturns ==
  Restoring =>
    /\ ev.result.returned
    /\ ev.result.success <=> ev.session # JNull

\* the same for the sessions whose windows is an array
TypedSessionsReturn ==
  (Restoring /\ ~RestoringSession(<<"nowindows">>)) =>
    /\ ev.result.returned
    /\ ev.result.success <=> ev.session # JNull


\* C21 as claimed: of two collected history entries, from the same or from
\* different profiles, whose URLs are equal once query and fragment are
\* stripped, the one with the earlier visitedAt is not in the result of
\* collectBrowserHistory.
C21_LatestVisitSurvives ==
  ev.kind = "history" =>
    \A i, j \in DOMAIN ev.allEntries :
      (/\ HistoryKey(ev.allEntries[i]) = HistoryKey(ev.allEntries[j])
       /\ MinuteOf(ev.allEntries[i].visitedAt) >
            MinuteOf(ev.allEntries[j].visitedAt))
      => ev.allEntries[j] \notin Range(ev.result)

\* what the reader does keep: one entry for each normalised URL, the first
\* one collected
FirstCollectedSurvives ==
  ev.kind = "history" =>
    /\ \A i, j \in DOMAIN ev.result :
         HistoryKey(ev.result[i]) = HistoryKey(ev.result[j]) => i = j
    /\ \A i \in DOMAIN ev.result :
         \E k \in DOMAIN ev.allEntries :
           /\ ev.allEntries[k] = ev.result[i]
           /\ \A l \in 1..(k - 1) :
                HistoryKey(ev.allEntries[l]) # HistoryKey(ev.result[i])

\* C22: whenever the processing of a profile has ended, and when
\* collectBrowserHistory has returned, no scratch copy of a history database
\* exists, whether the copy, the opening of the database or the query
\* succeeded or threw.
C22_ScratchCopyRemoved ==
  ev.kind \in {"profile", "history"} => scratch = {}
C22_Witness ==
  /\ ev.kind = "profile"
  /\ ev.copied
  /\ ev.threw
  /\ scratch = {}


\* the stored session of an id, as its file reads
StoredNow(id) ==
  LET parsed == JsonParse(ReadFile(sessFiles[id])) IN
  IF sessFiles[id].exists /\ parsed.ok THEN parsed.val ELSE JNull

AiFailed(call) == call.kind # "text" \/ call.text = <<>>

StoredCopies(k) ==
  {id \in StoreIds :
     GetProp(StoredNow(id), KeyClipboard) = GetProp(Context(k), KeyClipboard)}

\* C24: approve-session with a pending session writes one new session, with
\* approved = true, its session file, its signature file and its index entry,
\* touches no other session and clears the pending session; with no pending
\* session it returns null and leaves the store as it was; skip-session clears
\* the pending session and leaves the store as it was; no captured snapshot
\* is stored twice.
C24_ApproveStoresOnce ==
  /\ (ev.kind = "approve" /\ ev.pending.t = "obj") =>
       LET id == GetProp(ev.result, KeyId).v IN
       /\ ~ev.threw
       /\ pendingSession = JNull
       /\ GetProp(ev.result, KeyApproved) = JBool(TRUE)
       /\ ~ev.files[1][id].exists /\ sessFiles[id].exists
       /\ ~ev.files[2][id].exists /\ hmacFiles[id].exists
       /\ IndexIdSeq(indexFile) = <<id>> \o IndexIdSeq(ev.files[3])
       /\ \A other \in StoreIds \ {id} :
            /\ sessFiles[other] = ev.files[1][other]
            /\ hmacFiles[other] = ev.files[2][other]
       /\ \A key \in SnapshotKeys \ {KeyUserNote, KeyApproved} :
            GetProp(StoredNow(id), key) = GetProp(ev.pending, key)
  /\ (ev.kind = "approve" /\ ev.pending.t = "null") =>
       /\ ev.result = JNull
       /\ pendingSession = JNull
       /\ StoreFiles = ev.files
  /\ ev.kind = "skip" => pendingSession = JNull /\ StoreFiles = ev.files
  /\ \A k \in 1..MaxCaptures : Cardinality(StoredCopies(k)) <= 1
C24_Witness ==
  /\ ev.kind = "approve"
  /\ ev.pending.t = "obj"
  /\ pendingSession = JNull
  /\ Len(IndexIdSeq(indexFile)) = 2
  /\ \A k \in 1..2 : Cardinality(StoredCopies(k)) = 1

\* C28 as claimed: the aiSummary of the pending session is empty or is what
\* the AI call made for that session's own context has written; the call of
\* an earlier capture never writes into a newer pending session.
C28_SummaryBelongsToPending ==
  pendingSession.t = "obj" =>
    \/ GetProp(pendingSession, KeyAiSummary) = JStr(<<>>)
    \/ \E k \in DOMAIN captures :
         /\ captures[k].context.t = "obj"
         /\ GetProp(captures[k].context, KeyClipboard) =
              GetProp(pendingSession, KeyClipboard)
         /\ captures[k].wrote = GetProp(pendingSession, KeyAiSummary)

\* with one capture the summary is the pending session's own
OneCaptureOwnSummary == Len(captures) <= 1 => C28_SummaryBelongsToPending

CollectingNow == {k \in DOMAIN captures : captures[k].phase = "collecting"}

\* C29: at most one collection is in progress, and isCapturing is true
\* exactly while one is; a trigger received while a collection runs or a
\* session is pending starts no collection and leaves the pending session as
\* it was; when a collection ends, resolved or rejected, isCapturing is false,
\* and a trigger received when nothing runs and nothing is pending starts a
\* collection.
C29_OneCollectionAtATime ==
  /\ Cardinality(CollectingNow) <= 1
  /\ isCapturing <=> CollectingNow # {}
  /\ (ev.kind = "trigger" /\ (ev.wasCapturing \/ ev.pending.t # "null")) =>
       ~ev.started /\ pendingSession = ev.pending
  /\ ev.kind = "collected" => ~isCapturing
  /\ (/\ ev.kind = "trigger" /\ ev.configured /\ ~ev.wasCapturing
      /\ ev.pending.t = "null") =>
       ev.started /\ isCapturing
C29_Witness ==
  /\ ev.kind = "trigger"
  /\ ~ev.started
  /\ ev.configured
  /\ ev.pending.t = "obj"
  /\ pendingSession = ev.pending
  /\ ~isCapturing
  /\ Len(captures) = 1


\* a tool that failed, timed out, or whose output is empty or no JSON
Broken(tool) ==
  \/ tool.fail
  \/ Trim(tool.out) = <<>>
  \/ ~JsonParse(Trim(tool.out)).ok

\* no source of tabs answers: the relay holds nothing, the debugging port
\* and the fallback tool are broken
NoTabSource(w) ==
  /\ w.relay = <<>>
  /\ Broken(w.cdp)
  /\ w.fallback.fail \/ (~w.mac /\ Broken(w.fallback))

\* the history cannot be read: sql.js does not load, or every profile's
\* copy, open or query throws
NoHistorySource(w) ==
  \/ ~w.sqlLoads
  \/ \A i \in DOMAIN w.profiles :
       ReadProfile(w.profiles[i], 0).threw

\* the fields of a snapshot but one
OthersEqual(a, b, field) ==
  /\ a.rejected = b.rejected
  /\ field = "windows" \/ a.windows = b.windows
  /\ field = "recentFiles" \/ a.recentFiles = b.recentFiles
  /\ field = "browserTabs" \/ a.browserTabs = b.browserTabs
  /\ field = "browserHistory" \/ a.browserHistory = b.browserHistory
  /\ field = "clipboard" \/ a.clipboard = b.clipboard

\* whatever one collector's tool does, the fields of the others are the same
OthersUnchanged(opts, w, r) ==
  /\ \A win \in WindowTools :
       OthersEqual(captureContext(opts, [w EXCEPT !.win = win]), r, "windows")
  /\ \A recent \in (IF w.mac THEN RecentToolsMac ELSE RecentToolsWin) :
       OthersEqual(captureContext(opts, [w EXCEPT !.recent = recent]), r,
                   "recentFiles")
  /\ \A cdp \in ContextCdpPorts :
       OthersEqual(captureContext(opts, [w EXCEPT !.cdp = cdp]), r,
                   "browserTabs")
  /\ \A sqlLoads \in BOOLEAN :
       OthersEqual(captureContext(opts, [w EXCEPT !.sqlLoads = sqlLoads]), r,
                   "browserHistory")
  /\ \A clip \in Clipboards :
       OthersEqual(captureContext(opts, [w EXCEPT !.clip = clip]), r,
                   "clipboard")

\* what captureContext does of broken tools, the recent files apart
Degrades(opts, w, r) ==
  /\ ~r.rejected
  /\ \A i \in DOMAIN r.windows : r.windows[i].title # <<>>
  /\ Broken(w.win) => r.windows = <<>>
  /\ NoTabSource(w) => r.browserTabs = <<>>
  /\ NoHistorySource(w) => r.browserHistory = <<>>
  /\ w.clip.fail => r.clipboard = <<>>
  /\ OthersUnchanged(opts, w, r)

RecentBroken(w) ==
  w.recent.fail \/ (~w.mac /\ ~JsonParse(Trim(w.recent.out)).ok
                           /\ Trim(w.recent.out) # <<>>)

\* C25 as claimed: captureContext resolves, a collector whose tool fails or
\* garbles its output contributes an empty result, the recent files
\* included, and the other collectors' results are as they would be;
\* collectWindows returns only windows with a title.
C25_FailingCollectorIsEmpty ==
  ev.kind = "context" =>
    /\ Degrades(ev.opts, ev.world, ev.result)
    /\ RecentBroken(ev.world) => ev.result.recentFiles = <<>>

\* C25, amended: as above, but a recent-files run that fails on Windows
\* contributes the paths of the .lnk files of the Recent folder, newest
\* first and ten at most, and an empty list only where the folder is missing
\* or cannot be listed; on macOS it contributes an empty list.
C25_FailingCollectorDegrades ==
  ev.kind = "context" =>
    /\ Degrades(ev.opts, ev.world, ev.result)
    /\ RecentBroken(ev.world) =>
         ev.result.recentFiles =
           IF ev.world.mac THEN <<>> ELSE collectRecentFilesLnk(ev.world.dir)
    /\ (RecentBroken(ev.world) /\ ~(ev.world.dir.exists /\ ev.world.dir.lists))
         => ev.result.recentFiles = <<>>
C25_Witness ==
  /\ ev.kind = "context"
  /\ ~ev.world.mac
  /\ ev.world.win.fail
  /\ ev.world.recent.fail
  /\ ev.world.clip.fail
  /\ ev.result.windows = <<>>
  /\ Len(ev.result.recentFiles) = 2
  /\ ev.result.browserTabs # <<>>
  /\ ev.result.browserHistory # <<>>


\* a body text that is no JSON, or JSON that is no array
Malformed(text) ==
  ~JsonParse(text).ok \/ JsonParse(text).val.t # "arr"

\* the end handler runs for connection c
EndsHere(c) == conns[c].st = "recv" /\ conns'[c].st = "done"

\* C26: when the body of an authorised POST /tabs from an allowed origin,
\* within the size limit, is no JSON or is JSON that is no array, the end
\* handler answers 200 and latestTabs is what it was; the handler ends
\* normally, and every later authorised GET /tabs is answered 200 with the
\* stored tabs.
C26_MalformedBodyIgnored ==
  /\ [][\A c \in Conns :
          (EndsHere(c) /\ Malformed(conns[c].body)) =>
            /\ conns[c].bodyBytes <= MAX_BODY_BYTES
            /\ isAllowedOrigin(conns[c].req.origin)
                 \/ HeaderFalsy(conns[c].req.origin)
            /\ latestTabs' = latestTabs
            /\ conns'[c].sent = <<200>>]_vars
  /\ [][(ev' # ev /\ ev'.kind = "resp" /\ ev'.req \in AllowedRequests) =>
          /\ ev'.status = 200
          /\ ev'.body = JsonStringify(JArr(latestTabs))
          /\ latestTabs' = latestTabs]_vars
C26_Witness ==
  /\ conns[1].st = "done"
  /\ conns[1].sent = <<200>>
  /\ conns[1].body = <<"{", "}">>
  /\ conns[1].req.origin.present
  /\ Len(latestTabs) = 1
  /\ ev.kind = "resp"


\* the tab lists the syncs have sent
SentLists == {syncs[t].data : t \in {u \in DOMAIN syncs : syncs[u].posts >= 1}}

\* sync s began after a restart of the relay and has ended after reaching
\* it, the relay not having been restarted again
ReachedRelay(s) ==
  /\ syncs[s].pc = "ended"
  /\ syncs[s].posts >= 1
  /\ syncs[s].started # Token1
  /\ syncs[s].started = authToken

\* no sync sends more than two POSTs; a second POST follows a 401 and carries
\* the token fetched after it
RetriesOnce(s) ==
  /\ syncs[s].posts <= 2
  /\ syncs[s].posts = 2 =>
       /\ syncs[s].statuses[1] = 401
       /\ syncs[s].started = authToken => syncs[s].sent = authToken

\* C27 as claimed: a sync sends two POSTs at most, the second only after a
\* 401 and with the token fetched after it; a sync that began after a
\* restart of the relay, has reached it and has ended, the relay not having
\* been restarted again, was answered 200 and the relay holds a tab list the
\* extension has sent.
C27_SyncAfterRestart ==
  \A s \in DOMAIN syncs :
    /\ RetriesOnce(s)
    /\ ReachedRelay(s) =>
         /\ syncs[s].statuses[Len(syncs[s].statuses)] = 200
         /\ latestTabs \in SentLists

\* the same, where no tab list sent holds a character of more than one byte
AsciiOnly(data) == Utf8(JsonStringify(JArr(data))) = JsonStringify(JArr(data))
SyncOfAsciiTabs ==
  (\A t \in DOMAIN syncs : AsciiOnly(syncs[t].data)) => C27_SyncAfterRestart

\* the token logic alone: a sync that reached the relay was answered 200
SyncIsAnswered200 ==
  \A s \in DOMAIN syncs :
    /\ RetriesOnce(s)
    /\ ReachedRelay(s) => syncs[s].statuses[Len(syncs[s].statuses)] = 200
StaleTokenRetried ==
  \E s \in DOMAIN syncs :
    /\ ReachedRelay(s)
    /\ syncs[s].statuses = <<401, 200>>
    /\ latestTabs = syncs[s].data


\* the entries of index.json, in order
IndexEntries(f) ==
  LET index == readIndex(f) IN IF index.t = "arr" THEN index.v ELSE <<>>
CapturedTime(entry) == GetTime(GetProp(entry, KeyCapturedAt))

\* C30: whenever no saveSession is under way, in a store that started empty
\* and has seen saves and prunes only: no id occurs twice in index.json,
\* every id of the index has its session file and its signature file, every
\* session file has its id in the index, and the entries of the index are in
\* the order of their capturedAt, the newest first.
C30_StoreInvariant ==
  ~saving.active =>
    LET entries == IndexEntries(indexFile) IN
    /\ \A i \in DOMAIN entries : EntryId(entries[i]).t = "str"
    /\ \A i, j \in DOMAIN entries :
         i < j => EntryId(entries[i]) # EntryId(entries[j])
    /\ \A i \in DOMAIN entries :
         /\ EntryId(entries[i]).v \in StoreIds
         /\ sessFiles[EntryId(entries[i]).v].exists
         /\ hmacFiles[EntryId(entries[i]).v].exists
    /\ \A id \in StoreIds :
         sessFiles[id].exists =>
           \E i \in DOMAIN entries : EntryId(entries[i]).v = id
    /\ \A i, j \in DOMAIN entries :
         i < j => /\ ~CapturedTime(entries[i]).nan
                  /\ ~CapturedTime(entries[j]).nan
                  /\ CapturedTime(entries[i]).t >= CapturedTime(entries[j]).t
C30_Witness ==
  /\ ~saving.active
  /\ ev.kind = "prune"
  /\ ev.removed = 1
  /\ Len(IndexEntries(ev.indexFile)) = 2
  /\ Len(IndexEntries(indexFile)) = 1
  /\ idsMade = 2

====
